---- MODULE Spec2Model ----
(***************************************************************************)
(* State-machine model of the web GPU backend of gpui:                     *)
(*   - WgpuAtlas (crates/gpui/src/platform/web/wgpu_atlas.rs): key -> tile *)
(*     cache, texture slot lists with free lists, pending upload queue;    *)
(*   - WgpuRenderer::draw (crates/gpui/src/platform/web/wgpu_renderer.rs): *)
(*     one frame = flush uploads, acquire, one pass per batch, submit.     *)
(* Every call holds the atlas mutex for its whole body, so each atlas      *)
(* operation is one atomic action.  A Rust panic is modelled by the flag   *)
(* `panicked`; nothing runs after a panic.                                 *)
(***************************************************************************)
EXTENDS Integers, Sequences, FiniteSets, TLC

----------------------------------------------------------------------------
(* Bounds of the model *)

MonoKeys == 2
PolyKeys == 1
MaxCreated == 3
MaxUploads == 2
MaxBatches == 3
MaxPrims == 2
NumThreads == 2
MaxCalls == 2
MaxTime == 3
MaxPolls == 3
MaxRunnables == 3
MaxDepth == 2
MaxFrames == 3

----------------------------------------------------------------------------
(* Option<T> is a sequence of length 0 or 1 *)

None == <<>>
Some(x) == <<x>>
IsSome(o) == o /= <<>>
Unwrap(o) == o[1]

MaxOf(S) == CHOOSE m \in S : \A n \in S : n <= m

----------------------------------------------------------------------------
(* Atlas keys, kinds, sizes *)

Kinds == {"Monochrome", "Polychrome"}

Keys == 1..(MonoKeys + PolyKeys)

\* a further glyph beside the keys above, for the histories in which three
\* glyphs live at once
SpareKey == MonoKeys + PolyKeys + 1

texture_kind(key) ==
    IF key <= MonoKeys \/ key = SpareKey THEN "Monochrome" ELSE "Polychrome"

DEFAULT_ATLAS_SIZE == 1024

Size(w, h) == [width |-> w, height |-> h]

Sizes == {Size(1024, 512), Size(2048, 512)}

Payloads == {"p"}

BuildResults ==
    {[tag |-> "Err"], [tag |-> "None"]}
        \cup {[tag |-> "Some", size |-> s, bytes |-> b] : s \in Sizes, b \in Payloads}

AtlasTextureId(index, kind) == [index |-> index, kind |-> kind]

----------------------------------------------------------------------------
(* State *)

VARIABLES
    renderer,       \* WgpuRenderer: surface configuration, path intermediate textures
    frame,          \* the position of the render thread inside draw()
    textures,       \* storage: kind -> Vec<Option<WgpuAtlasTexture>>
    free_list,      \* storage: kind -> Vec<usize>, the reusable slot indices
    tiles_by_key,   \* key -> Option<AtlasTile>
    uploads,        \* Vec<PendingUpload>
    created,        \* history: number of textures created so far
    panicked,       \* a panic has unwound out of a call
    last,           \* history: the last call, what it returned and issued
    threads,        \* the mutex of the atlas and the threads calling into it
    timer,          \* a Timer future, the browser timeout behind it and the clock
    window,         \* WebWindowState: whether it holds a renderer, and its initialization
    dispatcher,     \* WebDispatcher: the main-thread queue, its mutex and the drain loops
    input           \* WebWindowState: modifiers, composition, callbacks; the last event

atlasVars == <<textures, free_list, tiles_by_key, uploads, created>>

\* no timer created
NoTimer == [future |-> None]

\* no window created
NoWindow == [pc |-> "none", renderer |-> None]

\* no dispatcher created
NoDispatcher == [pc |-> "none"]

\* no window listening to input
NoInput == [pc |-> "none"]

Threads == 1..NumThreads

\* a thread outside the atlas: the call it made last, what the call returned,
\* whether the call ran build(), the thread that held the lock when the call
\* began (0: none), and the number of calls the thread has made
IdleThread ==
    [pc |-> "idle", call |-> None, result |-> None, built |-> FALSE, behind |-> 0, calls |-> 0]

\* the mutex free (lock = 0) and no thread inside a call; history: for each
\* key the number of content-returning build() runs since it was last
\* removed, and the number of times it was removed
NoThreads ==
    [lock |-> 0,
     of |-> [t \in Threads |-> IdleThread],
     builds |-> [k \in Keys |-> 0],
     epoch |-> [k \in Keys |-> 0]]
\* the objects beside the renderer and its atlas
otherVars == <<timer, window, dispatcher, input>>

vars ==
    <<renderer, frame, textures, free_list, tiles_by_key, uploads, created, panicked, last,
      threads, timer, window, dispatcher, input>>

----------------------------------------------------------------------------
(* The rectangle packer of one texture (etagere::BucketedAtlasAllocator as  *)
(* used by WgpuAtlasTexture): the allocator state is the set of rectangles  *)
(* handed out so far; a request is placed at a corner left by the earlier   *)
(* rectangles where it fits without overlapping any of them.                *)

Bounds(x, y, size) == [origin |-> [x |-> x, y |-> y], size |-> size]

Right(b) == b.origin.x + b.size.width
Bottom(b) == b.origin.y + b.size.height

Overlaps(a, b) ==
    /\ a.origin.x < Right(b)
    /\ b.origin.x < Right(a)
    /\ a.origin.y < Bottom(b)
    /\ b.origin.y < Bottom(a)

AllocatorAllocate(allocator, total, size) ==
    IF size.width <= 0 \/ size.height <= 0
    THEN {}
    ELSE LET xs == {0} \cup {Right(b) : b \in allocator}
             ys == {0} \cup {Bottom(b) : b \in allocator}
         IN  {o \in [x : xs, y : ys] :
                 /\ o.x + size.width <= total.width
                 /\ o.y + size.height <= total.height
                 /\ \A b \in allocator : ~Overlaps(b, Bounds(o.x, o.y, size))}

----------------------------------------------------------------------------
(* WgpuAtlasTexture *)

NewTexture(id, size, gen) ==
    [id |-> id, size |-> size, allocator |-> {}, live_atlas_keys |-> 0, gen |-> gen]

\* a tile that ignores where the packer placed the allocation
TileAtZero(texture, size, origin) ==
    [texture_id |-> texture.id,
     tile_id |-> Cardinality(texture.allocator) + 1,
     padding |-> 0,
     bounds |-> Bounds(0, 0, size),
     gen |-> texture.gen]

\* the tile texture.allocate(size) returns when the packer answers `origin`
TileAt(texture, size, origin) ==
    [texture_id |-> texture.id,
     tile_id |-> Cardinality(texture.allocator) + 1,
     padding |-> 0,
     bounds |-> Bounds(origin.x, origin.y, size),
     gen |-> texture.gen]

\* the texture after texture.allocate(size) placed the tile at `origin`
TextureAllocate(texture, size, origin) ==
    [texture EXCEPT !.allocator = @ \cup {Bounds(origin.x, origin.y, size)},
                    !.live_atlas_keys = @ + 1]

\* a release that leaves the count as it is
decrement_ref_count_kept(texture) == texture

decrement_ref_count(texture) ==
    [texture EXCEPT !.live_atlas_keys = IF @ >= 1 THEN @ - 1 ELSE 0]

\* a texture taken for unreferenced while one key still lives in it
is_unreferenced_early(texture) == texture.live_atlas_keys <= 1

is_unreferenced(texture) == texture.live_atlas_keys = 0

bytes_per_pixel(texture) == IF texture.id.kind = "Monochrome" THEN 1 ELSE 4

----------------------------------------------------------------------------
(* WgpuAtlasState::push_texture and ::allocate, as the set of outcomes      *)
(* [textures, free_list, created, tile, panic] the call can have            *)

\* slot index (0-based) the new texture takes: free_list.pop() or textures.len()
PushIndex(list, free) ==
    IF free /= <<>> THEN free[Len(free)] ELSE Len(list)

\* a new texture of the default size whatever is requested
PushSizeDefault(min_size) == Size(DEFAULT_ATLAS_SIZE, DEFAULT_ATLAS_SIZE)

PushSize(min_size) ==
    Size(IF min_size.width > DEFAULT_ATLAS_SIZE THEN min_size.width ELSE DEFAULT_ATLAS_SIZE,
         IF min_size.height > DEFAULT_ATLAS_SIZE THEN min_size.height ELSE DEFAULT_ATLAS_SIZE)

\* a push that always appends and never reuses a freed slot
PushSlotAppend(list, free, ix, texture) == Append(list, Some(texture))

\* the slot vector after push_texture stored `texture` at slot `ix`
PushSlot(list, free, ix, texture) ==
    IF free /= <<>>
    THEN [list EXCEPT ![ix + 1] = Some(texture)]
    ELSE Append(list, Some(texture))

\* a free list that keeps the index it handed out
PopFreeKept(free) == free

PopFree(free) == IF free /= <<>> THEN SubSeq(free, 1, Len(free) - 1) ELSE free

\* a search that finds no texture with room
FindTextureNone(list, size) == 0

\* the slot (1-based position) that find_map over iter_mut().rev() stops at
FindTexture(list, size) ==
    LET fit == {i \in 1..Len(list) :
                   /\ IsSome(list[i])
                   /\ AllocatorAllocate(Unwrap(list[i]).allocator, Unwrap(list[i]).size, size) /= {}}
    IN  IF fit = {} THEN 0 ELSE MaxOf(fit)

Allocate(texs, free, made, size, kind) ==
    LET list == texs[kind]
        at == FindTexture(list, size)
    IN  IF at /= 0
        THEN LET texture == Unwrap(list[at])
             IN  {[textures |-> [texs EXCEPT ![kind][at] = Some(TextureAllocate(texture, size, o))],
                   free_list |-> free,
                   created |-> made,
                   tile |-> Some(TileAt(texture, size, o)),
                   panic |-> FALSE]
                     : o \in AllocatorAllocate(texture.allocator, texture.size, size)}
        ELSE LET ix == PushIndex(list, free[kind])
                 texture == NewTexture(AtlasTextureId(ix, kind), PushSize(size), made + 1)
                 pushed == [texs EXCEPT ![kind] = PushSlot(list, free[kind], ix, texture)]
                 popped == [free EXCEPT ![kind] = PopFree(@)]
                 origins == AllocatorAllocate(texture.allocator, texture.size, size)
             IN  IF origins = {}
                 THEN {[textures |-> pushed, free_list |-> popped, created |-> made + 1,
                        tile |-> None, panic |-> TRUE]}
                 ELSE {[textures |-> [pushed EXCEPT ![kind][ix + 1] =
                                         Some(TextureAllocate(texture, size, o))],
                        free_list |-> popped,
                        created |-> made + 1,
                        tile |-> Some(TileAt(texture, size, o)),
                        panic |-> FALSE] : o \in origins}

----------------------------------------------------------------------------
(* WgpuAtlasState::upload_texture and ::flush_uploads                       *)

PendingUpload(id, bounds, bytes, gen) ==
    [id |-> id, bounds |-> bounds, data |-> bytes, gen |-> gen]

\* an upload that is not queued
upload_texture_dropped(queue, id, bounds, bytes, gen) == queue

upload_texture(queue, id, bounds, bytes, gen) ==
    Append(queue, PendingUpload(id, bounds, bytes, gen))

\* Index<AtlasTextureId> for WgpuAtlasStorage: the slot read, None when the
\* index is out of range or the slot is empty (the read then panics)
StorageIndex(texs, id) ==
    IF id.index + 1 <= Len(texs[id.kind]) THEN texs[id.kind][id.index + 1] ELSE None

WriteTexture(texture, upload) ==
    [ev |-> "write_texture",
     id |-> upload.id,
     target |-> texture.gen,
     origin |-> upload.bounds.origin,
     extent |-> upload.bounds.size,
     bytes_per_row |-> upload.bounds.size.width * bytes_per_pixel(texture),
     data |-> upload.data,
     gen |-> upload.gen]

\* the writes issued for the queue in order, up to the first upload whose
\* texture slot is not populated
RECURSIVE FlushWrites(_, _)
FlushWrites(queue, texs) ==
    IF queue = <<>>
    THEN [log |-> <<>>, panic |-> FALSE]
    ELSE LET slot == StorageIndex(texs, Head(queue).id)
         IN  IF ~IsSome(slot)
             THEN [log |-> <<>>, panic |-> TRUE]
             ELSE LET rest == FlushWrites(Tail(queue), texs)
                  IN  [log |-> <<WriteTexture(Unwrap(slot), Head(queue))>> \o rest.log,
                       panic |-> rest.panic]

----------------------------------------------------------------------------
(* The record of the last call *)

Call(op, arg, built, result, log) ==
    [op |-> op, arg |-> arg, built |-> built, result |-> result, log |-> log]

Ok(tile) == [tag |-> "Ok", tile |-> tile]
Err == [tag |-> "Err", tile |-> None]
Unit == [tag |-> "Unit", tile |-> None]
Panic == [tag |-> "Panic", tile |-> None]

----------------------------------------------------------------------------
(* PlatformAtlas for WgpuAtlas *)

\* a lookup that never finds the key
CacheLookupMiss(map, key) == None

CacheLookup(map, key) == map[key]

CacheInsert(map, key, tile) == [map EXCEPT ![key] = Some(tile)]

\* an empty result stored in the key map as a tile of no extent
OnEmptyCached(map, key) ==
    [map EXCEPT ![key] = Some([texture_id |-> AtlasTextureId(0, texture_kind(key)),
                               tile_id |-> 0,
                               padding |-> 0,
                               bounds |-> Bounds(0, 0, Size(0, 0)),
                               gen |-> 0])]

\* the key map after build() answered None: `return Ok(None)`, nothing stored
OnEmpty(map, key) == map

\* the miss branch: build() has answered `res`
Miss(key, res) ==
    IF res.tag = "Err"
    THEN /\ last' = Call("get_or_insert_with", key, Some(res), Err, <<>>)
         /\ UNCHANGED <<atlasVars, panicked, renderer, frame>>
    ELSE IF res.tag = "None"
    THEN /\ last' = Call("get_or_insert_with", key, Some(res), Ok(None), <<>>)
         /\ tiles_by_key' = OnEmpty(tiles_by_key, key)
         /\ UNCHANGED <<textures, free_list, uploads, created, panicked, renderer, frame>>
    ELSE /\ Len(uploads) < MaxUploads
         /\ created < MaxCreated \/ FindTexture(textures[texture_kind(key)], res.size) /= 0
         /\ UNCHANGED <<renderer, frame>>
         /\ \E out \in Allocate(textures, free_list, created, res.size, texture_kind(key)) :
               /\ textures' = out.textures
               /\ free_list' = out.free_list
               /\ created' = out.created
               /\ panicked' = out.panic
               /\ IF out.panic
                  THEN /\ last' = Call("get_or_insert_with", key, Some(res), Panic, <<>>)
                       /\ UNCHANGED <<tiles_by_key, uploads>>
                  ELSE LET tile == Unwrap(out.tile)
                       IN  /\ uploads' = upload_texture(uploads, tile.texture_id,
                                                        tile.bounds, res.bytes, tile.gen)
                           /\ tiles_by_key' = CacheInsert(tiles_by_key, key, tile)
                           /\ last' = Call("get_or_insert_with", key, Some(res), Ok(Some(tile)), <<>>)

\* a hit that counts one more key in the tile's texture
OnHitRetain(texs, tile) ==
    [texs EXCEPT ![tile.texture_id.kind][tile.texture_id.index + 1] =
        Some([Unwrap(@) EXCEPT !.live_atlas_keys = @ + 1])]

\* the storage after a hit: `Ok(Some(tile.clone()))` touches nothing
OnHit(texs, tile) == texs

\* the body of get_or_insert_with, run under the lock
get_or_insert_with(key, res) ==
    /\ ~panicked
    /\ LET hit == CacheLookup(tiles_by_key, key)
       IN  IF IsSome(hit)
           THEN /\ last' = Call("get_or_insert_with", key, None, Ok(hit), <<>>)
                /\ textures' = OnHit(textures, Unwrap(hit))
                /\ UNCHANGED <<free_list, tiles_by_key, uploads, created, panicked, renderer, frame>>
           ELSE Miss(key, res)

\* a call that no other call interleaves with
GetOrInsertWith(key, res) ==
    /\ frame.pc = "idle"
    /\ get_or_insert_with(key, res)
    /\ UNCHANGED <<threads, otherVars>>

\* the slot list and free list of one kind after remove() released a tile of
\* texture `id`
Release(list, free, id) ==
    IF id.index + 1 > Len(list) \/ ~IsSome(list[id.index + 1])
    THEN [textures |-> list, free_list |-> free]
    ELSE LET texture == decrement_ref_count(Unwrap(list[id.index + 1]))
         IN  IF is_unreferenced(texture)
             THEN [textures |-> [list EXCEPT ![id.index + 1] = None],
                   free_list |-> Append(free, id.index)]
             ELSE [textures |-> [list EXCEPT ![id.index + 1] = Some(texture)],
                   free_list |-> free]

\* an unknown key taken for a tile of the first texture of its kind
RemovedIdOrDefault(map, key) ==
    IF IsSome(map[key])
    THEN Some(Unwrap(map[key]).texture_id)
    ELSE Some(AtlasTextureId(0, texture_kind(key)))

\* tiles_by_key.remove(key).map(|tile| tile.texture_id)
RemovedId(map, key) ==
    IF IsSome(map[key]) THEN Some(Unwrap(map[key]).texture_id) ELSE None

remove(key) ==
    /\ ~panicked
    /\ last' = Call("remove", key, None, [tag |-> "Unit", tile |-> tiles_by_key[key]], <<>>)
    /\ IF ~IsSome(RemovedId(tiles_by_key, key))
       THEN UNCHANGED <<atlasVars, panicked, renderer, frame>>
       ELSE LET id == Unwrap(RemovedId(tiles_by_key, key))
                out == Release(textures[id.kind], free_list[id.kind], id)
            IN  /\ tiles_by_key' = [tiles_by_key EXCEPT ![key] = None]
                /\ textures' = [textures EXCEPT ![id.kind] = out.textures]
                /\ free_list' = [free_list EXCEPT ![id.kind] = out.free_list]
                /\ UNCHANGED <<uploads, created, panicked, renderer, frame>>

Remove(key) ==
    /\ frame.pc = "idle"
    /\ remove(key)
    /\ UNCHANGED <<threads, otherVars>>

before_frame ==
    /\ ~panicked
    /\ LET out == FlushWrites(uploads, textures)
       IN  /\ uploads' = <<>>
           /\ panicked' = out.panic
           /\ last' = Call("before_frame", 0, None, IF out.panic THEN Panic ELSE Unit, out.log)
    /\ UNCHANGED <<textures, free_list, tiles_by_key, created, renderer, frame>>

BeforeFrame ==
    /\ frame.pc = "idle"
    /\ before_frame
    /\ UNCHANGED <<threads, otherVars>>

----------------------------------------------------------------------------
(* Threads calling into the atlas.  Every public operation begins with      *)
(* self.0.lock() and holds the guard until it returns, across build().      *)

ThreadKeys == {1}

ThreadBuildResults == {[tag |-> "Some", size |-> Size(1024, 512), bytes |-> "p"]}

ThreadCalls ==
    {[op |-> "get_or_insert_with", key |-> k, res |-> r] : k \in ThreadKeys, r \in ThreadBuildResults}
        \cup {[op |-> "remove", key |-> k] : k \in ThreadKeys}
        \cup {[op |-> "before_frame"]}

\* a lock that admits every thread
LockFreeAlways(lock) == TRUE

\* parking_lot::Mutex::lock returns when no thread holds the mutex
LockFree(lock) == lock = 0

InCall(t) == Unwrap(threads.of[t].call)

\* a return that keeps the mutex locked
ReturnHolding(t, result) ==
    [threads EXCEPT !.of[t].pc = "idle",
                    !.of[t].result = Some([value |-> result, epoch |-> 0]),
                    !.of[t].calls = @ + 1]

\* the guard is dropped as the call returns `result`
Return(t, result) ==
    [threads EXCEPT !.lock = 0,
                    !.of[t].pc = "idle",
                    !.of[t].result = Some([value |-> result,
                                           epoch |-> IF "key" \in DOMAIN InCall(t)
                                                     THEN threads.epoch[InCall(t).key] ELSE 0]),
                    !.of[t].calls = @ + 1]

ThreadCall(t, call) ==
    /\ UNCHANGED otherVars
    /\ ~panicked
    /\ threads.of[t].pc = "idle"
    /\ threads.of[t].calls < MaxCalls
    /\ threads' = [threads EXCEPT !.of[t] = [pc |-> "lock", call |-> Some(call), result |-> None,
                                             built |-> FALSE, behind |-> threads.lock,
                                             calls |-> @.calls]]
    /\ UNCHANGED <<atlasVars, renderer, frame, panicked, last>>

\* let mut lock = self.0.lock();
ThreadLock(t) ==
    /\ UNCHANGED otherVars
    /\ ~panicked
    /\ threads.of[t].pc = "lock"
    /\ LockFree(threads.lock)
    /\ threads' = [threads EXCEPT !.lock = t, !.of[t].pc = "locked"]
    /\ UNCHANGED <<atlasVars, renderer, frame, panicked, last>>

\* lock.tiles_by_key.get(key): a hit returns the stored tile
ThreadLookup(t) ==
    /\ UNCHANGED otherVars
    /\ ~panicked
    /\ threads.of[t].pc = "locked"
    /\ InCall(t).op = "get_or_insert_with"
    /\ IF IsSome(CacheLookup(tiles_by_key, InCall(t).key))
       THEN /\ get_or_insert_with(InCall(t).key, InCall(t).res)
            /\ threads' = Return(t, last'.result)
       ELSE /\ threads' = [threads EXCEPT !.of[t].pc = "build"]
            /\ UNCHANGED <<atlasVars, renderer, frame, panicked, last>>

\* build()
ThreadBuild(t) ==
    /\ UNCHANGED otherVars
    /\ ~panicked
    /\ threads.of[t].pc = "build"
    /\ threads' = [threads EXCEPT !.of[t].pc = "insert",
                                  !.of[t].built = TRUE,
                                  !.builds[InCall(t).key] =
                                      IF InCall(t).res.tag = "Some" THEN @ + 1 ELSE @]
    /\ UNCHANGED <<atlasVars, renderer, frame, panicked, last>>

\* build() that calls an operation of the same atlas: the nested operation
\* begins with self.0.lock() while the thread's outer call holds the guard
ThreadBuildReentrant(t, call) ==
    /\ UNCHANGED otherVars
    /\ ~panicked
    /\ threads.of[t].pc = "build"
    /\ threads' = [threads EXCEPT !.of[t].pc = "lock",
                                  !.of[t].call = Some(call),
                                  !.of[t].built = TRUE,
                                  !.of[t].behind = threads.lock]
    /\ UNCHANGED <<atlasVars, renderer, frame, panicked, last>>

\* the rest of the miss branch: allocate, upload_texture, insert, return
ThreadInsert(t) ==
    /\ UNCHANGED otherVars
    /\ ~panicked
    /\ threads.of[t].pc = "insert"
    /\ Miss(InCall(t).key, InCall(t).res)
    /\ threads' = Return(t, last'.result)

ThreadRemove(t) ==
    /\ UNCHANGED otherVars
    /\ threads.of[t].pc = "locked"
    /\ InCall(t).op = "remove"
    /\ remove(InCall(t).key)
    /\ threads' = [Return(t, last'.result) EXCEPT
                      !.builds[InCall(t).key] = 0,
                      !.epoch[InCall(t).key] =
                          IF IsSome(tiles_by_key[InCall(t).key]) THEN @ + 1 ELSE @]

ThreadBeforeFrame(t) ==
    /\ UNCHANGED otherVars
    /\ threads.of[t].pc = "locked"
    /\ InCall(t).op = "before_frame"
    /\ before_frame
    /\ threads' = Return(t, last'.result)

----------------------------------------------------------------------------
(* WgpuAtlas::get_texture_view / get_texture_info *)

\* the view handed out: the physical texture behind the slot
TextureView(texture) == [view_of |-> "atlas", id |-> texture.id, gen |-> texture.gen]

GetTextureView(id) ==
    /\ ~panicked
    /\ frame.pc = "idle"
    /\ UNCHANGED <<threads, otherVars>>
    /\ LET slot == StorageIndex(textures, id)
       IN  /\ panicked' = ~IsSome(slot)
           /\ last' = Call("get_texture_view", id, None,
                           IF IsSome(slot) THEN [tag |-> "View", view |-> TextureView(Unwrap(slot))]
                                           ELSE Panic, <<>>)
    /\ UNCHANGED <<atlasVars, renderer, frame>>

GetTextureInfo(id) ==
    /\ ~panicked
    /\ frame.pc = "idle"
    /\ UNCHANGED <<threads, otherVars>>
    /\ LET slot == StorageIndex(textures, id)
       IN  /\ panicked' = ~IsSome(slot)
           /\ last' = Call("get_texture_info", id, None,
                           IF IsSome(slot) THEN [tag |-> "View", view |-> TextureView(Unwrap(slot))]
                                           ELSE Panic, <<>>)
    /\ UNCHANGED <<atlasVars, renderer, frame>>

----------------------------------------------------------------------------------------------------------------------------------------
(* Scenes: an ordered list of primitive batches.  A primitive is named by   *)
(* its position in its batch, a batch by its position `ord` in the scene.   *)

Prims(n) == [j \in 1..n |-> j]

PlainKinds == {"Quads", "Shadows", "Underlines", "Surfaces"}

SpriteKinds == {"MonochromeSprites", "PolychromeSprites"}

SpriteTextureKind(kind) == IF kind = "MonochromeSprites" THEN "Monochrome" ELSE "Polychrome"

\* a path: paint order, number of vertices, clipped bounds
Path(order, vertices, bounds) == [order |-> order, vertices |-> vertices, bounds |-> bounds]

PathValues ==
    {Path(1, 3, Bounds(0, 0, Size(10, 10))),
     Path(1, 0, Bounds(20, 0, Size(10, 10))),
     Path(2, 3, Bounds(5, 5, Size(10, 20)))}

\* the paths of a batch come sorted by paint order
PathLists ==
    UNION {{ps \in [1..n -> PathValues] : \A j \in 1..(n - 1) : ps[j].order <= ps[j + 1].order}
              : n \in 0..MaxPrims}

Batches ==
    {[kind |-> k, prims |-> Prims(n)] : k \in PlainKinds, n \in 0..MaxPrims}
        \cup {[kind |-> k, texture_id |-> AtlasTextureId(0, SpriteTextureKind(k)), prims |-> Prims(n)]
                  : k \in SpriteKinds, n \in 0..MaxPrims}
        \cup {[kind |-> "Paths", paths |-> ps] : ps \in PathLists}

AcquireResults == {"Ok", "Lost", "Outdated", "Timeout", "OutOfMemory"}

----------------------------------------------------------------------------
(* WgpuRenderer *)

MSAA_SAMPLE_COUNTS == <<4, 2, 1>>

SurfaceSizes == {Size(800, 600), Size(1024, 768)}

NewRenderer(size) ==
    [surface_config |-> size,
     path_intermediate_texture |-> None,
     path_intermediate_msaa_texture |-> None,
     path_sample_count |-> MSAA_SAMPLE_COUNTS[1]]

\* a size taken for new whatever the surface configuration
SizeChangedAlways(r, size) == TRUE

\* the test of update_drawable_size: the width or the height differs
SizeChanged(r, size) ==
    size.width /= r.surface_config.width \/ size.height /= r.surface_config.height

\* the surface reconfigured while the intermediate textures are kept
update_drawable_size_keep(r, size) == [r EXCEPT !.surface_config = size]

update_drawable_size(r, size) ==
    IF SizeChanged(r, size)
    THEN [r EXCEPT !.surface_config = size,
                   !.path_intermediate_texture = None,
                   !.path_intermediate_msaa_texture = None]
    ELSE r

ensure_path_intermediate_texture(r) ==
    IF IsSome(r.path_intermediate_texture)
    THEN r
    ELSE [r EXCEPT !.path_intermediate_texture = Some(r.surface_config),
                   !.path_intermediate_msaa_texture =
                       IF r.path_sample_count > 1
                       THEN Some([size |-> r.surface_config, sample_count |-> r.path_sample_count])
                       ELSE @]

BeginPass(label, target, load, ord) ==
    [ev |-> "begin_render_pass", label |-> label, target |-> target, load |-> load, ord |-> ord]

DrawCall(pipeline, vertices, instances, texture, ord) ==
    [ev |-> "draw", pipeline |-> pipeline, vertices |-> vertices, instances |-> instances,
     texture |-> texture, ord |-> ord]

RECURSIVE SumVertices(_)
SumVertices(paths) ==
    IF paths = <<>> THEN 0 ELSE Head(paths).vertices + SumVertices(Tail(paths))

draw_paths_to_intermediate(r, paths, ord) ==
    IF ~IsSome(r.path_intermediate_texture)
    THEN <<>>
    ELSE IF SumVertices(paths) = 0
    THEN <<>>
    ELSE <<BeginPass("path rasterization pass",
                     IF IsSome(r.path_intermediate_msaa_texture) THEN "msaa" ELSE "intermediate",
                     "Clear", ord),
           DrawCall("path_rasterization", SumVertices(paths), <<1>>, "dummy", ord)>>

Min2(a, b) == IF a <= b THEN a ELSE b
Max2(a, b) == IF a >= b THEN a ELSE b

\* a union that keeps its left operand
UnionLeft(a, b) == a

Union(a, b) ==
    LET x == Min2(a.origin.x, b.origin.x)
        y == Min2(a.origin.y, b.origin.y)
    IN  Bounds(x, y, Size(Max2(Right(a), Right(b)) - x, Max2(Bottom(a), Bottom(b)) - y))

RECURSIVE UnionAll(_)
UnionAll(paths) ==
    IF Len(paths) = 1 THEN paths[1].bounds
    ELSE Union(UnionAll(SubSeq(paths, 1, Len(paths) - 1)), paths[Len(paths)].bounds)

\* one instance for the union of the bounds, whatever the paint orders
PathSpritesMerged(paths) == <<UnionAll(paths)>>

PathSprites(paths) ==
    IF paths[Len(paths)].order = paths[1].order
    THEN [j \in 1..Len(paths) |-> paths[j].bounds]
    ELSE <<UnionAll(paths)>>

draw_path_sprites(paths, ord) ==
    IF paths = <<>>
    THEN <<>>
    ELSE <<DrawCall("paths", 4, PathSprites(paths), "intermediate", ord)>>

Pipeline(kind) ==
    CASE kind = "Quads" -> "quads"
      [] kind = "Shadows" -> "shadows"
      [] kind = "Underlines" -> "underlines"
      [] kind = "MonochromeSprites" -> "mono_sprites"
      [] kind = "PolychromeSprites" -> "poly_sprites"

\* draw_quads .. draw_poly_sprites and the Surfaces arm: [log, panic]
DrawPrimitives(batch, texs, ord) ==
    IF batch.kind = "Surfaces" \/ batch.prims = <<>>
    THEN [log |-> <<>>, panic |-> FALSE]
    ELSE IF batch.kind \in SpriteKinds
    THEN LET slot == StorageIndex(texs, batch.texture_id)
         IN  IF ~IsSome(slot)
             THEN [log |-> <<>>, panic |-> TRUE]
             ELSE [log |-> <<DrawCall(Pipeline(batch.kind), 4, batch.prims,
                                      TextureView(Unwrap(slot)), ord)>>,
                   panic |-> FALSE]
    ELSE [log |-> <<DrawCall(Pipeline(batch.kind), 4, batch.prims, "dummy", ord)>>,
          panic |-> FALSE]

\* every pass clearing its target
LoadOpAlwaysClear(is_first_pass) == "Clear"

LoadOp(is_first_pass) == IF is_first_pass THEN "Clear" ELSE "Load"

\* one iteration of the batch loop of draw(): [log, panic, renderer, is_first_pass]
DrawOne(batch, ord, is_first_pass, r, texs) ==
    IF batch.kind = "Paths"
    THEN IF batch.paths = <<>>
         THEN [log |-> <<>>, panic |-> FALSE, renderer |-> r, is_first_pass |-> is_first_pass]
         ELSE LET r2 == ensure_path_intermediate_texture(r)
                  raster == draw_paths_to_intermediate(r2, batch.paths, ord)
                  copy == IF IsSome(r2.path_intermediate_texture)
                          THEN <<BeginPass("paths copy pass", "frame", LoadOp(is_first_pass), ord)>>
                                   \o draw_path_sprites(batch.paths, ord)
                          ELSE <<>>
              IN  [log |-> raster \o copy, panic |-> FALSE, renderer |-> r2,
                   is_first_pass |-> FALSE]
    ELSE LET pass == BeginPass("main render pass", "frame", LoadOp(is_first_pass), ord)
             body == DrawPrimitives(batch, texs, ord)
         IN  [log |-> <<pass>> \o body.log, panic |-> body.panic, renderer |-> r,
              is_first_pass |-> FALSE]

Acquire(result) == [ev |-> "get_current_texture", result |-> result]
Configure(config) == [ev |-> "configure", config |-> config]
Submit == [ev |-> "submit"]
Present == [ev |-> "present"]

\* history: the number of passes of a log that target the swap-chain image
FramePasses(log) ==
    Cardinality({j \in 1..Len(log) : log[j].ev = "begin_render_pass" /\ log[j].target = "frame"})

\* the frame acquired before the atlas is flushed
FrameLogLate(flushed, acquired) == acquired \o flushed

\* the order in which draw() flushes the atlas and acquires the frame
FrameLog(flushed, acquired) == flushed \o acquired

\* history: the pipelines of the draw calls of a log, in recording order
RECURSIVE Pipelines(_)
Pipelines(log) ==
    IF log = <<>> THEN <<>>
    ELSE (IF Head(log).ev = "draw" THEN <<Head(log).pipeline>> ELSE <<>>) \o Pipelines(Tail(log))

Idle ==
    [pc |-> "idle", len |-> 0, i |-> 0, is_first_pass |-> TRUE, last_ord |-> 0, passes |-> 0,
     calls |-> <<>>]

\* the batches visited back to front
BatchAtReversed(len, i) == len + 1 - i

\* the position in scene.batches() of the i-th batch the loop of draw() visits
BatchAt(len, i) == i

\* every acquisition error answered by a reconfiguration
NeedsReconfigureAlways(acquire) == acquire /= "Ok"

\* the acquisition errors draw() answers by configuring the surface again
NeedsReconfigure(acquire) == acquire \in {"Lost", "Outdated"}

\* draw(): before_frame(), get_current_texture(), encoder and globals
DrawBegin(len, acquire) ==
    /\ ~panicked
    /\ UNCHANGED <<threads, otherVars>>
    /\ frame.pc = "idle"
    /\ uploads' = <<>>
    /\ UNCHANGED <<textures, free_list, tiles_by_key, created, renderer>>
    /\ LET flush == FlushWrites(uploads, textures)
           arg == [len |-> len, acquire |-> acquire]
       IN  IF flush.panic
           THEN /\ panicked' = TRUE
                /\ last' = Call("draw", arg, None, Panic, flush.log)
                /\ UNCHANGED frame
           ELSE IF NeedsReconfigure(acquire)
           THEN /\ last' = Call("draw", arg, None, Unit,
                                FrameLog(flush.log,
                                         <<Acquire(acquire), Configure(renderer.surface_config)>>))
                /\ UNCHANGED <<frame, panicked>>
           ELSE IF acquire /= "Ok"
           THEN /\ last' = Call("draw", arg, None, Unit, FrameLog(flush.log, <<Acquire(acquire)>>))
                /\ UNCHANGED <<frame, panicked>>
           ELSE /\ last' = Call("draw", arg, None, Unit, FrameLog(flush.log, <<Acquire(acquire)>>))
                /\ frame' = [Idle EXCEPT !.pc = "batches", !.len = len]
                /\ UNCHANGED panicked

\* draw(): one iteration of `for batch in scene.batches()`
DrawBatch(batch) ==
    /\ ~panicked
    /\ UNCHANGED <<threads, otherVars>>
    /\ frame.pc = "batches"
    /\ frame.i < frame.len
    /\ LET ord == BatchAt(frame.len, frame.i + 1)
           out == DrawOne(batch, ord, frame.is_first_pass, renderer, textures)
       IN  /\ renderer' = out.renderer
           /\ panicked' = out.panic
           /\ frame' = [frame EXCEPT !.i = @ + 1,
                                     !.is_first_pass = out.is_first_pass,
                                     !.last_ord = IF out.log /= <<>> THEN ord ELSE @,
                                     !.passes = @ + FramePasses(out.log),
                                     !.calls = @ \o Pipelines(out.log)]
           /\ last' = Call("draw_batch", [ord |-> ord, batch |-> batch], None,
                           IF out.panic THEN Panic ELSE Unit, out.log)
    /\ UNCHANGED atlasVars

\* draw(): queue.submit(encoder.finish()); frame.present()
DrawEnd ==
    /\ ~panicked
    /\ UNCHANGED <<threads, otherVars>>
    /\ frame.pc = "batches"
    /\ frame.i = frame.len
    /\ frame' = Idle
    /\ last' = Call("draw_end", 0, None, Unit, <<Submit, Present>>)
    /\ UNCHANGED <<atlasVars, renderer, panicked>>

UpdateDrawableSize(size) ==
    /\ ~panicked
    /\ UNCHANGED <<threads, otherVars>>
    /\ frame.pc = "idle"
    /\ renderer' = update_drawable_size(renderer, size)
    /\ last' = Call("update_drawable_size", size, None, Unit,
                    IF SizeChanged(renderer, size)
                    THEN <<Configure(renderer'.surface_config)>> ELSE <<>>)
    /\ UNCHANGED <<atlasVars, panicked, frame>>

----------------------------------------------------------------------------
(* WgpuRenderer::new: an async constructor; it is suspended at the adapter   *)
(* and device requests, so each attempt of the backend loop is three steps.  *)
(* While it runs, `renderer` holds the locals of the constructor and `last`  *)
(* the calls made so far.                                                    *)

backends_to_try == <<"WebGPU", "WebGL">>

\* sample counts a device can be asked to support for the surface format
SupportedCounts == {{4, 2, 1}, {2, 1}, {1}}

\* what create_texture does with a descriptor the device rejects: it hands
\* back an invalid texture and reports the error out of band, or the error
\* handler panics
OnInvalidTexture == {"invalid_texture", "panic"}

Constructing(size, transparent) ==
    [pc |-> "create_surface", backend |-> 1, size |-> size, transparent |-> transparent,
     last_error |-> None]

\* new() is suspended before the step `pc`
At(pc) == last.op = "new" /\ last.result = None /\ renderer.pc = pc

Attempt(step, backend, ok) == [ev |-> step, backend |-> backend, ok |-> ok]

\* the loop given up at the first failed candidate
NextCandidateGiveUp(i) == Len(backends_to_try) + 1

\* `continue` in `for (backend_name, backend) in backends_to_try`
NextCandidate(i) == i + 1

\* a failed step of candidate i: last_error is set and the loop continues,
\* or, after the last candidate, new() returns the aggregate error
Continue(step, error) ==
    LET name == backends_to_try[renderer.backend]
        i == NextCandidate(renderer.backend)
        log == Append(last.log, Attempt(step, name, FALSE))
        message == [backend |-> name, error |-> error]
    IN  IF i <= Len(backends_to_try)
        THEN /\ renderer' = [renderer EXCEPT !.pc = "create_surface", !.backend = i,
                                              !.last_error = Some(message)]
             /\ last' = [last EXCEPT !.log = log]
        ELSE /\ renderer' = [pc |-> "failed"]
             /\ last' = [last EXCEPT !.log = log,
                                     !.result = [tag |-> "Err", last_error |-> message]]

\* the MSAA probe: the loop over MSAA_SAMPLE_COUNTS leaves at its first
\* iteration, with 1 or with the count whose test texture it created and
\* dropped
ProbeSampleCount ==
    LET sample_count == MSAA_SAMPLE_COUNTS[1]
    IN  IF sample_count = 1 THEN 1 ELSE sample_count

\* the test textures the probe creates
ProbeTextures ==
    IF MSAA_SAMPLE_COUNTS[1] = 1 THEN <<>> ELSE <<MSAA_SAMPLE_COUNTS[1]>>

TestTexture(sample_count, valid) ==
    [ev |-> "create_texture", label |-> "msaa test", sample_count |-> sample_count, valid |-> valid]

CreateSurface(ok) ==
    /\ At("create_surface")
    /\ UNCHANGED <<threads, otherVars>>
    /\ IF ok
       THEN /\ renderer' = [renderer EXCEPT !.pc = "request_adapter"]
            /\ last' = [last EXCEPT !.log = Append(@, Attempt("create_surface",
                                                              backends_to_try[renderer.backend], TRUE))]
       ELSE Continue("create_surface", "surface creation failed")
    /\ UNCHANGED <<atlasVars, frame, panicked>>

RequestAdapter(ok) ==
    /\ At("request_adapter")
    /\ UNCHANGED <<threads, otherVars>>
    /\ IF ok
       THEN /\ renderer' = [renderer EXCEPT !.pc = "request_device"]
            /\ last' = [last EXCEPT !.log = Append(@, Attempt("request_adapter",
                                                              backends_to_try[renderer.backend], TRUE))]
       ELSE Continue("request_adapter", "no suitable adapter")
    /\ UNCHANGED <<atlasVars, frame, panicked>>

\* the device request and, when it succeeds, the rest of the loop body:
\* surface configuration, MSAA probe, pipelines, atlas, return Ok(Self {..})
RequestDevice(ok, supported, on_invalid) ==
    /\ At("request_device")
    /\ UNCHANGED <<threads, otherVars>>
    /\ IF ~ok
       THEN /\ Continue("request_device", "device request failed")
            /\ UNCHANGED panicked
       ELSE LET name == backends_to_try[renderer.backend]
                probes == [j \in 1..Len(ProbeTextures) |->
                              TestTexture(ProbeTextures[j], ProbeTextures[j] \in supported)]
                crash == /\ on_invalid = "panic"
                         /\ \E j \in 1..Len(probes) : ~probes[j].valid
                log == last.log \o <<Attempt("request_device", name, TRUE),
                                     Configure(renderer.size)>> \o probes
            IN  IF crash
                THEN /\ panicked' = TRUE
                     /\ renderer' = [pc |-> "failed"]
                     /\ last' = [last EXCEPT !.log = log, !.result = Panic]
                ELSE /\ panicked' = FALSE
                     /\ renderer' = [NewRenderer(renderer.size)
                                        EXCEPT !.path_sample_count = ProbeSampleCount]
                     /\ last' = [last EXCEPT
                                    !.log = log,
                                    !.result = [tag |-> "Ok", backend |-> name,
                                                supported |-> supported]]
    /\ UNCHANGED <<atlasVars, frame>>

----------------------------------------------------------------------------
(* Timer: a future over window.setTimeout.  The clock counts milliseconds.  *)

Durations == {0, 1, 2}

\* what the browser answers to the first poll: the timeout is scheduled,
\* there is no window, or setTimeout throws
ScheduleResults == {"ok", "no_window", "set_timeout_err"}

\* Timer::after
TimerAfter(duration) == [duration |-> duration, started |-> FALSE]

\* the future, the timeout scheduled for it ("none", "pending", "fired" or
\* "dropped" when the closure was never handed to the browser), the time
\* the timeout is due, whether the waker was called since the last poll, the
\* value the future resolved to, and history: the polls made
TimerState(duration) ==
    [future |-> Some(TimerAfter(duration)),
     timeout |-> "none",
     due |-> 0,
     woken |-> FALSE,
     output |-> None,
     polls |-> <<>>,
     now |-> 0]

otherRendererVars == <<renderer, frame, atlasVars, panicked, last, threads, dispatcher, input>>

\* <Timer as Future>::poll, called by the executor for the first time, after
\* the timer's waker was called, or after any other wake-up of the task
TimerPoll(schedule) ==
    /\ IsSome(timer.future)
    /\ timer.output = None
    /\ Len(timer.polls) < MaxPolls
    /\ LET self == Unwrap(timer.future)
           cause == IF ~self.started THEN "first" ELSE IF timer.woken THEN "timer" ELSE "other"
       IN  IF ~self.started
           THEN timer' = [timer EXCEPT
                             !.future = Some([self EXCEPT !.started = TRUE]),
                             !.timeout = IF schedule = "ok" THEN "pending" ELSE "dropped",
                             !.due = IF schedule = "ok" THEN timer.now + self.duration ELSE @,
                             !.woken = FALSE,
                             !.polls = Append(@, [cause |-> cause, poll |-> "Pending"])]
           ELSE timer' = [timer EXCEPT
                             !.output = Some(timer.now),
                             !.woken = FALSE,
                             !.polls = Append(@, [cause |-> cause, poll |-> "Ready"])]
    /\ UNCHANGED <<otherRendererVars, window>>

\* the browser runs the timeout callback: waker.wake()
TimeoutFires ==
    /\ IsSome(timer.future)
    /\ timer.timeout = "pending"
    /\ timer.now >= timer.due
    /\ timer' = [timer EXCEPT !.timeout = "fired", !.woken = TRUE]
    /\ UNCHANGED <<otherRendererVars, window>>

\* a millisecond passes
Tick ==
    /\ IsSome(timer.future)
    /\ timer.now < MaxTime
    /\ timer' = [timer EXCEPT !.now = @ + 1]
    /\ UNCHANGED <<otherRendererVars, window>>

----------------------------------------------------------------------------
(* WebWindow: the renderer is installed by the async initialize_renderer;   *)
(* until then draw and the sprite atlas fall back to doing nothing.          *)

\* the values of window.devicePixelRatio
Dprs == {1, 2, 3}

\* WebWindow::new: no renderer yet, the scale factor read from the browser,
\* no request-frame callback, no media query listening; history: the last
\* call answered without a renderer, the browser's device pixel ratio,
\* whether the renderer was installed, the size or the device pixel ratio
\* changed since the request-frame callback last ran, how often it ran and
\* the force_render it was last given
WebWindowAt(size, dpr) ==
    [pc |-> "new", renderer |-> None, size |-> size, needs_force_render |-> FALSE,
     call |-> None,
     scale_factor |-> dpr,
     request_frame_callback |-> FALSE,
     query |-> None,
     dpr |-> dpr,
     owed |-> FALSE,
     frames |-> 0,
     force_render |-> None]

WebWindowNew(size) == WebWindowAt(size, 1)

\* Size { width: DevicePixels((size.width.0 * scale_factor) as i32), ... }
device_size(size, scale_factor) ==
    Size(size.width * scale_factor, size.height * scale_factor)

is_renderer_ready(w) == IsSome(w.renderer)

\* no call into the window runs between the return of WgpuRenderer::new and
\* the installation of the renderer: there is no await between them
Settled == ~panicked /\ (window.pc = "initializing" => last.result = None)

\* initialize_renderer up to `WgpuRenderer::new(canvas.clone(), device_size, false)`:
\* the document, canvas and IME elements are set up, or an error is returned
InitializeBegin(dom_ok) ==
    /\ ~panicked
    /\ window.pc = "new"
    /\ IF dom_ok
       THEN /\ window' = [window EXCEPT !.pc = "initializing"]
            /\ LET size == device_size(window.size, window.scale_factor)
               IN  /\ renderer' = Constructing(size, FALSE)
                   /\ last' = Call("new", [size |-> size, transparent |-> FALSE], None, None, <<>>)
       ELSE /\ window' = [window EXCEPT !.pc = "failed"]
            /\ UNCHANGED <<renderer, last>>
    /\ UNCHANGED <<frame, atlasVars, panicked, threads, timer, dispatcher, input>>

\* initialize_renderer after the await: `?` on the constructor's result, then
\* setup_event_listeners (the media query is made for the device pixel ratio
\* of this moment), state.renderer = Some(renderer);
\* state.needs_force_render = true, and the render loop starts
InitializeEnd ==
    /\ ~panicked
    /\ window.pc = "initializing"
    /\ last.op = "new"
    /\ last.result /= None
    /\ IF last.result.tag = "Ok"
       THEN window' = [window EXCEPT !.pc = "ready",
                                      !.renderer = Some([backend |-> last.result.backend]),
                                      !.query = Some(window.dpr),
                                      !.needs_force_render = TRUE,
                                      !.owed = TRUE]
       ELSE window' = [window EXCEPT !.pc = "failed"]
    /\ UNCHANGED <<otherRendererVars, timer>>

\* a build() that ran
NoopBuiltInvoked(res) == Some(res)

\* NoopAtlas::get_or_insert_with ignores _build
NoopBuilt(res) == None

\* PlatformWindow::draw
WindowDraw(len, acquire) ==
    /\ Settled
    /\ window.pc /= "none"
    /\ IF is_renderer_ready(window)
       THEN DrawBegin(len, acquire)
       ELSE /\ window' = [window EXCEPT !.call =
                              Some(Call("draw", [len |-> len, acquire |-> acquire], None, Unit, <<>>))]
            /\ UNCHANGED <<otherRendererVars, timer>>

\* PlatformWindow::sprite_atlas().get_or_insert_with(key, build)
WindowGetOrInsertWith(key, res) ==
    /\ Settled
    /\ window.pc /= "none"
    /\ IF is_renderer_ready(window)
       THEN GetOrInsertWith(key, res)
       ELSE /\ window' = [window EXCEPT !.call =
                              Some(Call("get_or_insert_with", key, NoopBuilt(res), Ok(None), <<>>))]
            /\ UNCHANGED <<otherRendererVars, timer>>

\* PlatformWindow::sprite_atlas().remove(key)
WindowRemove(key) ==
    /\ Settled
    /\ window.pc /= "none"
    /\ IF is_renderer_ready(window)
       THEN Remove(key)
       ELSE /\ window' = [window EXCEPT !.call = Some(Call("remove", key, None, Unit, <<>>))]
            /\ UNCHANGED <<otherRendererVars, timer>>

\* renderer.update_drawable_size(device_size) inside `if let Some(renderer)`
WindowUpdateDrawableSize(size) ==
    IF is_renderer_ready(window)
    THEN /\ renderer' = update_drawable_size(renderer, size)
         /\ last' = Call("update_drawable_size", size, None, Unit,
                         IF SizeChanged(renderer, size)
                         THEN <<Configure(renderer'.surface_config)>> ELSE <<>>)
    ELSE UNCHANGED <<renderer, last>>

otherWindowVars == <<frame, atlasVars, panicked, threads, timer, dispatcher, input>>

\* PlatformWindow::on_request_frame
OnRequestFrame ==
    /\ Settled
    /\ window.pc /= "none"
    /\ window' = [window EXCEPT !.request_frame_callback = TRUE]
    /\ UNCHANGED <<renderer, last, otherWindowVars>>

\* the closure of start_render_loop, called by requestAnimationFrame: the
\* callback, if one is set, is given the flag, and the flag is reset
AnimationFrame ==
    /\ Settled
    /\ window.pc = "ready"
    /\ window.frames < MaxFrames
    /\ window.request_frame_callback
    /\ window' = [window EXCEPT !.force_render = Some(window.needs_force_render),
                                !.needs_force_render = FALSE,
                                !.frames = @ + 1,
                                !.owed = FALSE]
    /\ UNCHANGED <<renderer, last, otherWindowVars>>

\* the browser evaluates `(resolution: {q}dppx)`
Matches(query, dpr) == Unwrap(query) = dpr

\* (new_scale_factor - old_scale_factor).abs() > 0.001
ScaleChanged(new_scale_factor, old_scale_factor) == new_scale_factor /= old_scale_factor

\* the device pixel ratio of the browser changes; the listener of the media
\* query is called when the query begins or ceases to match
DevicePixelRatioChange(dpr) ==
    /\ Settled
    /\ window.pc /= "none"
    /\ dpr /= window.dpr
    /\ IF /\ IsSome(window.query)
          /\ Matches(window.query, dpr) /= Matches(window.query, window.dpr)
          /\ ScaleChanged(dpr, window.scale_factor)
       THEN /\ window' = [window EXCEPT !.dpr = dpr,
                                        !.owed = TRUE,
                                        !.scale_factor = dpr,
                                        !.needs_force_render = TRUE]
            /\ WindowUpdateDrawableSize(device_size(window.size, dpr))
       ELSE /\ window' = [window EXCEPT !.dpr = dpr, !.owed = TRUE]
            /\ UNCHANGED <<renderer, last>>
    /\ UNCHANGED otherWindowVars

\* the ResizeObserver reports the content rectangle of the canvas
ResizeObserved(new_size) ==
    /\ Settled
    /\ window.pc = "ready"
    /\ IF window.size /= new_size
       THEN /\ window' = [window EXCEPT !.size = new_size,
                                        !.needs_force_render = TRUE,
                                        !.owed = TRUE]
            /\ WindowUpdateDrawableSize(device_size(new_size, window.scale_factor))
       ELSE UNCHANGED <<window, renderer, last>>
    /\ UNCHANGED otherWindowVars

\* PlatformWindow::resize
WindowResize(size) ==
    /\ Settled
    /\ window.pc /= "none"
    /\ window' = [window EXCEPT !.size = size]
    /\ WindowUpdateDrawableSize(device_size(size, window.scale_factor))
    /\ UNCHANGED otherWindowVars

----------------------------------------------------------------------------
(* WebWindow input: listeners on the canvas, the browser window and the      *)
(* hidden IME element translate browser events into PlatformInput for the    *)
(* input callback and into calls of the input handler.  Positions, click     *)
(* counting, key_char and is_held are left out: no handler reads them.       *)

Modifiers(control, alt, shift, platform, function) ==
    [control |-> control, alt |-> alt, shift |-> shift, platform |-> platform,
     function |-> function]

\* KeyboardEvent.key of the keys pressed
KeyNames == {"A", "ArrowUp", "Shift"}

\* the keyboard events of the browser: ctrlKey, altKey, shiftKey, metaKey,
\* getModifierState("Fn"), getModifierState("CapsLock"), isComposing
KeyboardEvents ==
    {[key |-> k, ctrl_key |-> FALSE, alt_key |-> FALSE, shift_key |-> s, meta_key |-> FALSE,
      fn |-> f, caps |-> c, is_composing |-> ic] :
        k \in KeyNames, s \in BOOLEAN, f \in BOOLEAN, c \in BOOLEAN, ic \in BOOLEAN}

\* the mouse and wheel events of the browser
MouseEvents ==
    {[button |-> 0, ctrl_key |-> FALSE, alt_key |-> FALSE, shift_key |-> s, meta_key |-> FALSE,
      fn |-> f] : s \in BOOLEAN, f \in BOOLEAN}

\* event.data() of composition and input events
EventData == {None, Some("x")}

modifiers_from_mouse_event(event) ==
    Modifiers(event.ctrl_key, event.alt_key, event.shift_key, event.meta_key, FALSE)

modifiers_from_keyboard_event(event) ==
    Modifiers(event.ctrl_key, event.alt_key, event.shift_key, event.meta_key, event.fn)

mouse_button_from_web(button) ==
    CASE button = 0 -> "Left"
      [] button = 1 -> "Middle"
      [] button = 2 -> "Right"
      [] button = 3 -> "Back"
      [] button = 4 -> "Forward"
      [] OTHER -> "Left"

is_modifier_key(event) ==
    event.key \in {"Shift", "Control", "Alt", "Meta", "CapsLock", "Fn"}

\* a named key gets gpui's name, a single character is lowercased, any other
\* name is kept
key_from_web_event(event) ==
    CASE event.key = "ArrowUp" -> "up"
      [] event.key = "A" -> "a"
      [] OTHER -> event.key

Keystroke(modifiers, key) == [modifiers |-> modifiers, key |-> key]

ModifiersChangedEvent(modifiers, capslock) ==
    [type |-> "ModifiersChanged", modifiers |-> modifiers, capslock |-> capslock]

KeyDownEvent(keystroke) == [type |-> "KeyDown", keystroke |-> keystroke]

KeyUpEvent(keystroke) == [type |-> "KeyUp", keystroke |-> keystroke]

\* MouseMove, MouseDown, MouseUp, MouseExited, ScrollWheel
MouseInput(type, button, modifiers) ==
    [type |-> type, button |-> button, modifiers |-> modifiers]

\* hover_callback(hovered)
HoverCall(hovered) == [type |-> "hover", hovered |-> hovered]

\* input_handler.replace_text_in_range(None, &data) and
\* input_handler.replace_and_mark_text_in_range(None, &data, None)
HandlerCall(type, text) == [type |-> type, text |-> text]

\* WebWindow::new: no callback, no input handler, no modifier down, not
\* composing; history: whether a compositionstart was heard and no
\* compositionend since, the last browser event heard, the calls its
\* listener made in order, and a bit that flips with every event heard
WebWindowInput ==
    [pc |-> "new",
     modifiers |-> Modifiers(FALSE, FALSE, FALSE, FALSE, FALSE),
     capslock |-> FALSE,
     is_composing |-> FALSE,
     is_hovered |-> FALSE,
     pressed_button |-> None,
     input_callback |-> FALSE,
     hover_callback |-> FALSE,
     input_handler |-> FALSE,
     composition |-> FALSE,
     event |-> None,
     log |-> <<>>,
     tick |-> FALSE]

nonInputVars ==
    <<renderer, frame, atlasVars, panicked, last, threads, timer, window, dispatcher>>

\* what every listener leaves behind: the event and the calls made for it
Heard(type, event, log) == [type |-> type, raw |-> event, log |-> log]

Listen(state, heard) ==
    [state EXCEPT !.event = Some([type |-> heard.type, raw |-> heard.raw]),
                  !.log = heard.log,
                  !.tick = ~@]

\* setup_event_listeners and setup_ime_listeners
SetupListeners ==
    /\ input.pc = "new"
    /\ input' = [input EXCEPT !.pc = "listening"]
    /\ UNCHANGED nonInputVars

\* PlatformWindow::on_input
OnInput ==
    /\ input.pc /= "none"
    /\ input' = [input EXCEPT !.input_callback = TRUE]
    /\ UNCHANGED nonInputVars

\* PlatformWindow::on_hover_status_change
OnHoverStatusChange ==
    /\ input.pc /= "none"
    /\ input' = [input EXCEPT !.hover_callback = TRUE]
    /\ UNCHANGED nonInputVars

\* PlatformWindow::set_input_handler
SetInputHandler ==
    /\ input.pc /= "none"
    /\ input' = [input EXCEPT !.input_handler = TRUE]
    /\ UNCHANGED nonInputVars

\* PlatformWindow::take_input_handler
TakeInputHandler ==
    /\ input.pc /= "none"
    /\ input' = [input EXCEPT !.input_handler = FALSE]
    /\ UNCHANGED nonInputVars

\* what the input callback is given, if there is one
ToCallback(events) == IF input.input_callback THEN events ELSE <<>>

\* what the input handler is asked, if there is one
ToHandler(calls) == IF input.input_handler THEN calls ELSE <<>>

\* the mousemove listener
OnMouseMove(event) ==
    /\ input.pc = "listening"
    /\ LET modifiers == modifiers_from_mouse_event(event)
       IN  input' = Listen([input EXCEPT !.modifiers = modifiers],
                           Heard("mousemove", event,
                                 ToCallback(<<MouseInput("MouseMove", input.pressed_button,
                                                         modifiers)>>)))
    /\ UNCHANGED nonInputVars

\* the mousedown listener
OnMouseDown(event) ==
    /\ input.pc = "listening"
    /\ LET modifiers == modifiers_from_mouse_event(event)
           button == mouse_button_from_web(event.button)
       IN  input' = Listen([input EXCEPT !.modifiers = modifiers,
                                         !.pressed_button = Some(button)],
                           Heard("mousedown", event,
                                 ToCallback(<<MouseInput("MouseDown", Some(button), modifiers)>>)))
    /\ UNCHANGED nonInputVars

\* the mouseup listener
OnMouseUp(event) ==
    /\ input.pc = "listening"
    /\ LET modifiers == modifiers_from_mouse_event(event)
           button == mouse_button_from_web(event.button)
       IN  input' = Listen([input EXCEPT !.modifiers = modifiers,
                                         !.pressed_button = None],
                           Heard("mouseup", event,
                                 ToCallback(<<MouseInput("MouseUp", Some(button), modifiers)>>)))
    /\ UNCHANGED nonInputVars

\* the mouseenter listener: hover tracking only
OnMouseEnter(event) ==
    /\ input.pc = "listening"
    /\ input' = Listen([input EXCEPT !.is_hovered = TRUE],
                       Heard("mouseenter", event,
                             IF ~input.is_hovered /\ input.hover_callback
                             THEN <<HoverCall(TRUE)>> ELSE <<>>))
    /\ UNCHANGED nonInputVars

\* the mouseleave listener
OnMouseLeave(event) ==
    /\ input.pc = "listening"
    /\ LET modifiers == modifiers_from_mouse_event(event)
           exit_event == MouseInput("MouseExited", input.pressed_button, modifiers)
       IN  input' = Listen([input EXCEPT !.is_hovered = FALSE,
                                         !.pressed_button = None,
                                         !.modifiers = modifiers],
                           Heard("mouseleave", event,
                                 (IF input.hover_callback THEN <<HoverCall(FALSE)>> ELSE <<>>)
                                     \o ToCallback(<<exit_event>>)))
    /\ UNCHANGED nonInputVars

\* the wheel listener
OnWheel(event) ==
    /\ input.pc = "listening"
    /\ LET modifiers == modifiers_from_mouse_event(event)
       IN  input' = Listen([input EXCEPT !.modifiers = modifiers],
                           Heard("wheel", event,
                                 ToCallback(<<MouseInput("ScrollWheel", None, modifiers)>>)))
    /\ UNCHANGED nonInputVars

\* a KeyDown given before the ModifiersChanged
KeyDownFirst(changed, key) == key \o changed

\* the keydown listener gives ModifiersChanged, then KeyDown
KeyDownOrder(changed, key) == changed \o key

\* the keyup listener gives KeyUp, then ModifiersChanged
KeyUpOrder(changed, key) == key \o changed

\* the keydown listener
OnKeyDown(event) ==
    /\ input.pc = "listening"
    /\ LET modifiers == modifiers_from_keyboard_event(event)
           capslock == event.caps
           key == key_from_web_event(event)
           is_composing == input.is_composing \/ event.is_composing
           changed == IF input.modifiers /= modifiers \/ input.capslock /= capslock
                      THEN <<ModifiersChangedEvent(modifiers, capslock)>> ELSE <<>>
           down == IF ~is_composing /\ ~is_modifier_key(event)
                   THEN <<KeyDownEvent(Keystroke(modifiers, key))>> ELSE <<>>
       IN  input' = Listen([input EXCEPT !.modifiers = modifiers, !.capslock = capslock],
                           Heard("keydown", event, ToCallback(KeyDownOrder(changed, down))))
    /\ UNCHANGED nonInputVars

\* the keyup listener
OnKeyUp(event) ==
    /\ input.pc = "listening"
    /\ LET modifiers == modifiers_from_keyboard_event(event)
           capslock == event.caps
           key == key_from_web_event(event)
           is_composing == input.is_composing \/ event.is_composing
           changed == IF input.modifiers /= modifiers \/ input.capslock /= capslock
                      THEN <<ModifiersChangedEvent(modifiers, capslock)>> ELSE <<>>
           up == IF ~is_composing /\ ~is_modifier_key(event)
                 THEN <<KeyUpEvent(Keystroke(modifiers, key))>> ELSE <<>>
       IN  input' = Listen([input EXCEPT !.modifiers = modifiers, !.capslock = capslock],
                           Heard("keyup", event, ToCallback(KeyUpOrder(changed, up))))
    /\ UNCHANGED nonInputVars

\* the compositionstart listener
OnCompositionStart ==
    /\ input.pc = "listening"
    /\ input' = Listen([input EXCEPT !.is_composing = TRUE, !.composition = TRUE],
                       Heard("compositionstart", None, <<>>))
    /\ UNCHANGED nonInputVars

\* the compositionupdate listener
OnCompositionUpdate(data) ==
    /\ input.pc = "listening"
    /\ input' = Listen(input,
                       Heard("compositionupdate", data,
                             IF IsSome(data)
                             THEN ToHandler(<<HandlerCall("replace_and_mark_text_in_range",
                                                          Unwrap(data))>>)
                             ELSE <<>>))
    /\ UNCHANGED nonInputVars

\* a composition that stays open after its end
ComposingKept(is_composing) == is_composing

\* state.is_composing = false, the first statement of the compositionend listener
ComposingCleared(is_composing) == FALSE

\* the compositionend listener
OnCompositionEnd(data) ==
    /\ input.pc = "listening"
    /\ input' = Listen([input EXCEPT !.is_composing = ComposingCleared(@),
                                     !.composition = FALSE],
                       Heard("compositionend", data,
                             IF IsSome(data)
                             THEN ToHandler(<<HandlerCall("replace_text_in_range", Unwrap(data))>>)
                             ELSE <<>>))
    /\ UNCHANGED nonInputVars

\* the input listener: direct text input, ignored during a composition
OnInputEvent(data) ==
    /\ input.pc = "listening"
    /\ input' = Listen(input,
                       Heard("input", data,
                             IF ~input.is_composing /\ IsSome(data)
                             THEN ToHandler(<<HandlerCall("replace_text_in_range", Unwrap(data))>>)
                             ELSE <<>>))
    /\ UNCHANGED nonInputVars

----------------------------------------------------------------------------
(* WebDispatcher: runnables for the main thread wait in a VecDeque behind a  *)
(* mutex; every dispatch spawns a local task that drains the queue, and      *)
(* run_on_main_thread drains it on request.  The page has one thread: a      *)
(* spawned task starts when nothing else runs, while a running runnable may  *)
(* itself dispatch or drain.                                                 *)

\* WebDispatcher::new: an empty queue, the mutex free (lock = 0), no drain
\* task spawned, no drain loop on the stack; history: the number of
\* runnables dispatched (runnable n is the n-th one dispatched), who
\* dispatched each (0: not a runnable), the runnables in the order their
\* run() began, and those whose run() returned
WebDispatcherNew ==
    [pc |-> "ready",
     main_thread_runnables |-> <<>>,
     lock |-> 0,
     spawned |-> 0,
     stack |-> <<>>,
     dispatched |-> 0,
     by |-> <<>>,
     started |-> <<>>,
     finished |-> {}]

\* a drain loop about to lock the queue
DrainLoop == [pc |-> "pop", runnable |-> None]

Top == dispatcher.stack[Len(dispatcher.stack)]

SetTop(loop) == [dispatcher.stack EXCEPT ![Len(dispatcher.stack)] = loop]

nonDispatcherVars == <<renderer, frame, atlasVars, panicked, last, threads, timer, window, input>>

\* dispatch_on_main_thread, called by the page or by a running runnable:
\* push_back under the lock, then spawn_local of a drain task
DispatchOnMainThread ==
    /\ dispatcher.pc = "ready"
    /\ dispatcher.dispatched < MaxRunnables
    /\ IF dispatcher.stack = <<>> THEN TRUE ELSE Top.pc = "run"
    /\ LockFree(dispatcher.lock)
    /\ dispatcher' = [dispatcher EXCEPT
                         !.main_thread_runnables = Append(@, dispatcher.dispatched + 1),
                         !.dispatched = @ + 1,
                         !.by = Append(@, IF dispatcher.stack = <<>> THEN 0
                                          ELSE Unwrap(Top.runnable)),
                         !.spawned = @ + 1]
    /\ UNCHANGED nonDispatcherVars

\* the executor starts a spawned drain task
DrainSpawned ==
    /\ dispatcher.pc = "ready"
    /\ dispatcher.spawned > 0
    /\ dispatcher.stack = <<>>
    /\ dispatcher' = [dispatcher EXCEPT !.spawned = @ - 1, !.stack = <<DrainLoop>>]
    /\ UNCHANGED nonDispatcherVars

\* run_on_main_thread, called by the page or by a running runnable
RunOnMainThread ==
    /\ dispatcher.pc = "ready"
    /\ IF dispatcher.stack = <<>> THEN TRUE
       ELSE Top.pc = "run" /\ Len(dispatcher.stack) < MaxDepth
    /\ dispatcher' = [dispatcher EXCEPT !.stack = Append(@, DrainLoop)]
    /\ UNCHANGED nonDispatcherVars

\* let mut state = self.state.lock(); state.main_thread_runnables.pop_front()
PopFront ==
    /\ dispatcher.pc = "ready"
    /\ dispatcher.stack /= <<>>
    /\ Top.pc = "pop"
    /\ LockFree(dispatcher.lock)
    /\ LET queue == dispatcher.main_thread_runnables
       IN  dispatcher' = [dispatcher EXCEPT
                             !.lock = Len(dispatcher.stack),
                             !.main_thread_runnables = IF queue = <<>> THEN queue ELSE Tail(queue),
                             !.stack = SetTop([pc |-> "popped",
                                               runnable |-> IF queue = <<>> THEN None
                                                            ELSE Some(Head(queue))])]
    /\ UNCHANGED nonDispatcherVars

\* a guard that lives on after the block
GuardHeld(lock) == lock

\* the mutex after the block `{ let mut state = ...; ...pop_front() }`: the
\* guard is a local of the block and is dropped at its end
GuardDropped(lock) == 0

\* the end of the block and the match: run the runnable popped, or break
Match ==
    /\ dispatcher.pc = "ready"
    /\ dispatcher.stack /= <<>>
    /\ Top.pc = "popped"
    /\ IF IsSome(Top.runnable)
       THEN dispatcher' = [dispatcher EXCEPT
                              !.lock = GuardDropped(@),
                              !.started = Append(@, Unwrap(Top.runnable)),
                              !.stack = SetTop([Top EXCEPT !.pc = "run"])]
       ELSE dispatcher' = [dispatcher EXCEPT
                              !.lock = GuardDropped(@),
                              !.stack = SubSeq(@, 1, Len(@) - 1)]
    /\ UNCHANGED nonDispatcherVars

\* runnable.run() returns; the loop goes round
RunnableEnd ==
    /\ dispatcher.pc = "ready"
    /\ dispatcher.stack /= <<>>
    /\ Top.pc = "run"
    /\ dispatcher' = [dispatcher EXCEPT
                         !.finished = @ \cup {Unwrap(Top.runnable)},
                         !.stack = SetTop(DrainLoop)]
    /\ UNCHANGED nonDispatcherVars

----------------------------------------------------------------------------
(* Specifications *)

Init ==
    /\ renderer = NewRenderer(Size(800, 600))
    /\ frame = Idle
    /\ textures = [k \in Kinds |-> <<>>]
    /\ free_list = [k \in Kinds |-> <<>>]
    /\ tiles_by_key = [k \in Keys |-> None]
    /\ uploads = <<>>
    /\ created = 0
    /\ panicked = FALSE
    /\ last = Call("new", 0, None, Unit, <<>>)
    /\ threads = NoThreads
    /\ timer = NoTimer
    /\ window = NoWindow
    /\ dispatcher = NoDispatcher
    /\ input = NoInput

\* the atlas under every sequence of calls of its public operations
Next ==
    \/ \E key \in Keys, res \in BuildResults : GetOrInsertWith(key, res)
    \/ \E key \in Keys : Remove(key)
    \/ BeforeFrame

Spec == Init /\ [][Next]_vars

\* the renderer drawing frames while a glyph and an image come and go
FrameKeys == {1, MonoKeys + 1}

FrameBuildResults == {[tag |-> "Some", size |-> Size(1024, 512), bytes |-> "p"]}

\* texture ids a scene or a caller may hold: slot 0 and a slot never populated
FrameTextureIds == {AtlasTextureId(i, k) : i \in 0..1, k \in Kinds}

\* draw() runs to completion on the one thread of the page: the steps of a
\* frame are not interleaved with other calls
NextFrame ==
    \/ \E key \in FrameKeys, res \in FrameBuildResults : GetOrInsertWith(key, res)
    \/ \E key \in FrameKeys : Remove(key)
    \/ \E id \in FrameTextureIds : GetTextureView(id)
    \/ \E id \in FrameTextureIds : GetTextureInfo(id)
    \/ \E len \in 0..MaxBatches, acquire \in AcquireResults : DrawBegin(len, acquire)
    \/ \E batch \in Batches : DrawBatch(batch)
    \/ DrawEnd
    \/ \E size \in SurfaceSizes : UpdateDrawableSize(size)

SpecFrame == Init /\ [][NextFrame]_vars

\* three glyphs of two sizes coming and going: textures are created,
\* reclaimed and their slots reused while other textures of the kind live
ReuseKeys == {1, 2, SpareKey}

ReuseBuildResults ==
    {[tag |-> "Some", size |-> s, bytes |-> b] : s \in Sizes, b \in Payloads}

InitReuse ==
    /\ renderer = NewRenderer(Size(800, 600))
    /\ frame = Idle
    /\ textures = [k \in Kinds |-> <<>>]
    /\ free_list = [k \in Kinds |-> <<>>]
    /\ tiles_by_key = [k \in Keys \cup {SpareKey} |-> None]
    /\ uploads = <<>>
    /\ created = 0
    /\ panicked = FALSE
    /\ last = Call("new", 0, None, Unit, <<>>)
    /\ threads = NoThreads
    /\ timer = NoTimer
    /\ window = NoWindow
    /\ dispatcher = NoDispatcher
    /\ input = NoInput

NextReuse ==
    \/ \E key \in ReuseKeys, res \in ReuseBuildResults : GetOrInsertWith(key, res)
    \/ \E key \in ReuseKeys : Remove(key)
    \/ BeforeFrame

SpecReuse == InitReuse /\ [][NextReuse]_vars

\* two glyphs built at sizes below, at and above the default texture size in
\* each dimension
PushKeys == {1, 2}

PushDims == {512, DEFAULT_ATLAS_SIZE, DEFAULT_ATLAS_SIZE + 1}

PushBuildResults ==
    {[tag |-> "Some", size |-> Size(w, h), bytes |-> b] :
        w \in PushDims, h \in PushDims, b \in Payloads}

NextPush ==
    \/ \E key \in PushKeys, res \in PushBuildResults : GetOrInsertWith(key, res)
    \/ \E key \in PushKeys : Remove(key)
    \/ BeforeFrame

SpecPush == Init /\ [][NextPush]_vars

\* the dispatcher under every order of dispatches, drain tasks and drains
InitDispatcher ==
    /\ dispatcher = WebDispatcherNew
    /\ input = NoInput
    /\ renderer = NewRenderer(Size(800, 600))
    /\ frame = Idle
    /\ textures = [k \in Kinds |-> <<>>]
    /\ free_list = [k \in Kinds |-> <<>>]
    /\ tiles_by_key = [k \in Keys |-> None]
    /\ uploads = <<>>
    /\ created = 0
    /\ panicked = FALSE
    /\ last = Call("new", 0, None, Unit, <<>>)
    /\ threads = NoThreads
    /\ timer = NoTimer
    /\ window = NoWindow

NextDispatcher ==
    \/ DispatchOnMainThread
    \/ DrainSpawned
    \/ RunOnMainThread
    \/ PopFront
    \/ Match
    \/ RunnableEnd

SpecDispatcher == InitDispatcher /\ [][NextDispatcher]_vars

\* the construction of a renderer, under every answer of the browser
InitNew ==
    /\ \E size \in SurfaceSizes, transparent \in BOOLEAN :
          /\ renderer = Constructing(size, transparent)
          /\ last = Call("new", [size |-> size, transparent |-> transparent], None, None, <<>>)
    /\ frame = Idle
    /\ textures = [k \in Kinds |-> <<>>]
    /\ free_list = [k \in Kinds |-> <<>>]
    /\ tiles_by_key = [k \in Keys |-> None]
    /\ uploads = <<>>
    /\ created = 0
    /\ panicked = FALSE
    /\ threads = NoThreads
    /\ timer = NoTimer
    /\ window = NoWindow
    /\ dispatcher = NoDispatcher
    /\ input = NoInput

NextNew ==
    \/ \E ok \in BOOLEAN : CreateSurface(ok)
    \/ \E ok \in BOOLEAN : RequestAdapter(ok)
    \/ \E ok \in BOOLEAN, supported \in SupportedCounts, on_invalid \in OnInvalidTexture :
          RequestDevice(ok, supported, on_invalid)

SpecNew == InitNew /\ [][NextNew]_vars

\* a window from its creation on: its renderer is initialized while frames
\* are requested and sprites are asked for
WindowKeys == {1}

WindowBatches ==
    {[kind |-> "Quads", prims |-> Prims(1)],
     [kind |-> "MonochromeSprites", texture_id |-> AtlasTextureId(0, "Monochrome"),
      prims |-> Prims(1)]}

InitWindow ==
    /\ \E size \in SurfaceSizes : window = WebWindowNew(size)
    /\ renderer = [pc |-> "none"]
    /\ frame = Idle
    /\ textures = [k \in Kinds |-> <<>>]
    /\ free_list = [k \in Kinds |-> <<>>]
    /\ tiles_by_key = [k \in Keys |-> None]
    /\ uploads = <<>>
    /\ created = 0
    /\ panicked = FALSE
    /\ last = Call("window_new", 0, None, Unit, <<>>)
    /\ threads = NoThreads
    /\ timer = NoTimer
    /\ dispatcher = NoDispatcher
    /\ input = NoInput

NextWindow ==
    \/ \E dom_ok \in BOOLEAN : InitializeBegin(dom_ok)
    \/ \E ok \in BOOLEAN : CreateSurface(ok)
    \/ \E ok \in BOOLEAN : RequestAdapter(ok)
    \/ \E ok \in BOOLEAN, supported \in SupportedCounts, on_invalid \in OnInvalidTexture :
          RequestDevice(ok, supported, on_invalid)
    \/ InitializeEnd
    \/ \E len \in 0..1, acquire \in {"Ok", "Lost"} : WindowDraw(len, acquire)
    \/ \E batch \in WindowBatches : DrawBatch(batch)
    \/ DrawEnd
    \/ \E key \in WindowKeys, res \in FrameBuildResults : WindowGetOrInsertWith(key, res)
    \/ \E key \in WindowKeys : WindowRemove(key)

SpecWindow == InitWindow /\ [][NextWindow]_vars

\* a window, its render loop and what the browser reports to it
InitLoop ==
    /\ \E size \in SurfaceSizes, dpr \in Dprs : window = WebWindowAt(size, dpr)
    /\ renderer = [pc |-> "none"]
    /\ frame = Idle
    /\ textures = [k \in Kinds |-> <<>>]
    /\ free_list = [k \in Kinds |-> <<>>]
    /\ tiles_by_key = [k \in Keys |-> None]
    /\ uploads = <<>>
    /\ created = 0
    /\ panicked = FALSE
    /\ last = Call("window_new", 0, None, Unit, <<>>)
    /\ threads = NoThreads
    /\ timer = NoTimer
    /\ dispatcher = NoDispatcher
    /\ input = NoInput

NextLoop ==
    \/ \E dom_ok \in BOOLEAN : InitializeBegin(dom_ok)
    \/ \E ok \in BOOLEAN : CreateSurface(ok)
    \/ \E ok \in BOOLEAN : RequestAdapter(ok)
    \/ \E ok \in BOOLEAN, supported \in SupportedCounts, on_invalid \in OnInvalidTexture :
          RequestDevice(ok, supported, on_invalid)
    \/ InitializeEnd
    \/ OnRequestFrame
    \/ AnimationFrame
    \/ \E dpr \in Dprs : DevicePixelRatioChange(dpr)
    \/ \E new_size \in SurfaceSizes : ResizeObserved(new_size)
    \/ \E size \in SurfaceSizes : WindowResize(size)

SpecLoop == InitLoop /\ [][NextLoop]_vars

\* a window and the events of its canvas, of the browser window and of its
\* IME element, in any order
InitInput ==
    /\ input = WebWindowInput
    /\ window = NoWindow
    /\ renderer = NewRenderer(Size(800, 600))
    /\ frame = Idle
    /\ textures = [k \in Kinds |-> <<>>]
    /\ free_list = [k \in Kinds |-> <<>>]
    /\ tiles_by_key = [k \in Keys |-> None]
    /\ uploads = <<>>
    /\ created = 0
    /\ panicked = FALSE
    /\ last = Call("new", 0, None, Unit, <<>>)
    /\ threads = NoThreads
    /\ timer = NoTimer
    /\ dispatcher = NoDispatcher

NextInput ==
    \/ SetupListeners
    \/ OnInput
    \/ OnHoverStatusChange
    \/ SetInputHandler
    \/ TakeInputHandler
    \/ \E event \in MouseEvents : OnMouseMove(event)
    \/ \E event \in MouseEvents : OnMouseDown(event)
    \/ \E event \in MouseEvents : OnMouseUp(event)
    \/ \E event \in MouseEvents : OnMouseEnter(event)
    \/ \E event \in MouseEvents : OnMouseLeave(event)
    \/ \E event \in MouseEvents : OnWheel(event)
    \/ \E event \in KeyboardEvents : OnKeyDown(event)
    \/ \E event \in KeyboardEvents : OnKeyUp(event)
    \/ OnCompositionStart
    \/ \E data \in EventData : OnCompositionUpdate(data)
    \/ \E data \in EventData : OnCompositionEnd(data)
    \/ \E data \in EventData : OnInputEvent(data)

SpecInput == InitInput /\ [][NextInput]_vars

\* a timer awaited in a task that other events wake as well
InitTimer ==
    /\ \E duration \in Durations : timer = TimerState(duration)
    /\ renderer = NewRenderer(Size(800, 600))
    /\ frame = Idle
    /\ textures = [k \in Kinds |-> <<>>]
    /\ free_list = [k \in Kinds |-> <<>>]
    /\ tiles_by_key = [k \in Keys |-> None]
    /\ uploads = <<>>
    /\ created = 0
    /\ panicked = FALSE
    /\ last = Call("new", 0, None, Unit, <<>>)
    /\ threads = NoThreads
    /\ window = NoWindow
    /\ dispatcher = NoDispatcher
    /\ input = NoInput

NextTimer ==
    \/ \E schedule \in ScheduleResults : TimerPoll(schedule)
    \/ TimeoutFires
    \/ Tick

SpecTimer == InitTimer /\ [][NextTimer]_vars

\* threads sharing the atlas, under every interleaving of their steps
NextThreads ==
    \/ \E t \in Threads, call \in ThreadCalls : ThreadCall(t, call)
    \/ \E t \in Threads : ThreadLock(t)
    \/ \E t \in Threads : ThreadLookup(t)
    \/ \E t \in Threads : ThreadBuild(t)
    \/ \E t \in Threads : ThreadInsert(t)
    \/ \E t \in Threads : ThreadRemove(t)
    \/ \E t \in Threads : ThreadBeforeFrame(t)

SpecThreads == Init /\ [][NextThreads]_vars

\* the same threads with build callbacks that may fail
FailingBuildResults == ThreadBuildResults \cup {[tag |-> "Err"]}

FailingCalls ==
    {[op |-> "get_or_insert_with", key |-> k, res |-> r] :
        k \in ThreadKeys, r \in FailingBuildResults}
        \cup {[op |-> "remove", key |-> k] : k \in ThreadKeys}
        \cup {[op |-> "before_frame"]}

NextFailing ==
    \/ \E t \in Threads, call \in FailingCalls : ThreadCall(t, call)
    \/ \E t \in Threads : ThreadLock(t)
    \/ \E t \in Threads : ThreadLookup(t)
    \/ \E t \in Threads : ThreadBuild(t)
    \/ \E t \in Threads : ThreadInsert(t)
    \/ \E t \in Threads : ThreadRemove(t)
    \/ \E t \in Threads : ThreadBeforeFrame(t)

SpecFailing == Init /\ [][NextFailing]_vars

\* the threads with build callbacks that may call back into the atlas,
\* under a scheduler that lets every thread run
NestedCalls == {[op |-> "remove", key |-> k] : k \in ThreadKeys}

\* the steps of thread t inside a call
ThreadStep(t) ==
    \/ ThreadLock(t)
    \/ ThreadLookup(t)
    \/ ThreadBuild(t)
    \/ \E call \in NestedCalls : ThreadBuildReentrant(t, call)
    \/ ThreadInsert(t)
    \/ ThreadRemove(t)
    \/ ThreadBeforeFrame(t)

NextReentrant ==
    \/ \E t \in Threads, call \in ThreadCalls : ThreadCall(t, call)
    \/ \E t \in Threads : ThreadLock(t)
    \/ \E t \in Threads : ThreadLookup(t)
    \/ \E t \in Threads : ThreadBuild(t)
    \/ \E t \in Threads, call \in NestedCalls : ThreadBuildReentrant(t, call)
    \/ \E t \in Threads : ThreadInsert(t)
    \/ \E t \in Threads : ThreadRemove(t)
    \/ \E t \in Threads : ThreadBeforeFrame(t)

SpecReentrant ==
    Init /\ [][NextReentrant]_vars /\ \A t \in Threads : WF_vars(ThreadStep(t))

\* the threads of SpecThreads under the same scheduler
SpecThreadsFair ==
    Init /\ [][NextThreads]_vars
        /\ \A t \in Threads :
              WF_vars(ThreadLock(t) \/ ThreadLookup(t) \/ ThreadBuild(t) \/ ThreadInsert(t)
                          \/ ThreadRemove(t) \/ ThreadBeforeFrame(t))

----------------------------------------------------------------------------
(* Properties *)

Cached(key) == IsSome(tiles_by_key[key])

Tile(key) == Unwrap(tiles_by_key[key])

\* the step is a call of `op`
Called(op) == last'.op = op /\ vars' /= vars

\* C1: a get_or_insert_with on a cached key returns the stored tile without
\* invoking build and leaves the stored tile as it is; a key becomes cached
\* only in a get_or_insert_with that invoked build, and its stored tile never
\* changes while it stays cached: one build per key between insertion and
\* removal.
C1_Dedup ==
    [][/\ \A key \in Keys :
            Cached(key) /\ Cached(key)' => tiles_by_key'[key] = tiles_by_key[key]
       /\ \A key \in Keys :
            ~Cached(key) /\ Cached(key)' =>
                /\ last'.op = "get_or_insert_with"
                /\ last'.arg = key
                /\ IsSome(last'.built)
       /\ Called("get_or_insert_with") /\ Cached(last'.arg) =>
            /\ last'.result = Ok(tiles_by_key[last'.arg])
            /\ last'.built = None]_vars

\* a cached key was asked for again and answered from the cache
C1_Witness ==
    /\ last.op = "get_or_insert_with"
    /\ last.built = None
    /\ Cached(last.arg)
    /\ last.result = Ok(tiles_by_key[last.arg])

\* C2: two distinct cached keys with the same texture id never have
\* overlapping tile bounds.
C2_NoOverlap ==
    \A k1, k2 \in Keys :
        (/\ k1 /= k2
         /\ Cached(k1)
         /\ Cached(k2)
         /\ Tile(k1).texture_id = Tile(k2).texture_id)
            => ~Overlaps(Tile(k1).bounds, Tile(k2).bounds)

\* A and B were allocated in one texture, A was removed and C was allocated
\* in the same texture: C is the third allocation or later, next to B
C2_Witness ==
    \E k1, k2 \in Keys :
        /\ k1 /= k2
        /\ Cached(k1)
        /\ Cached(k2)
        /\ Tile(k1).texture_id = Tile(k2).texture_id
        /\ Tile(k1).gen = Tile(k2).gen
        /\ Tile(k1).tile_id >= 3
        /\ Unwrap(StorageIndex(textures, Tile(k1).texture_id)).live_atlas_keys = 2
        /\ last.op = "get_or_insert_with"
        /\ last.arg = k1
        /\ IsSome(last.built)

\* C3: when build answers None the call returns no tile and changes nothing:
\* the key stays uncached (so the next call builds again), no texture is
\* created, no live count changes, nothing is enqueued; when build answers
\* content the returned tile is cached; a call on an uncached key always
\* invokes build.
C3_EmptyNotCached ==
    [][Called("get_or_insert_with") =>
          /\ ~Cached(last'.arg) => IsSome(last'.built)
          /\ (IsSome(last'.built) /\ Unwrap(last'.built).tag = "None") =>
                /\ last'.result = Ok(None)
                /\ ~IsSome(tiles_by_key'[last'.arg])
                /\ UNCHANGED atlasVars
          /\ (IsSome(last'.built) /\ Unwrap(last'.built).tag = "Some" /\ ~panicked') =>
                /\ IsSome(last'.result.tile)
                /\ tiles_by_key'[last'.arg] = last'.result.tile]_vars

\* build answered None while the atlas already holds textures and uploads
C3_Witness ==
    /\ last.op = "get_or_insert_with"
    /\ IsSome(last.built)
    /\ Unwrap(last.built).tag = "None"
    /\ last.result = Ok(None)
    /\ ~Cached(last.arg)
    /\ uploads /= <<>>

\* C4: remove of a key that is not cached changes nothing and does not
\* panic; after any remove the key is not cached.
C4_RemoveIdempotent ==
    [][Called("remove") =>
          /\ ~IsSome(tiles_by_key'[last'.arg])
          /\ ~panicked'
          /\ ~Cached(last'.arg) => UNCHANGED atlasVars]_vars

\* an unknown key was removed from an atlas that holds a live texture, a
\* freed slot and a pending upload
C4_Witness ==
    /\ last.op = "remove"
    /\ last.result.tile = None
    /\ uploads /= <<>>
    /\ \E kind \in Kinds :
          /\ free_list[kind] /= <<>>
          /\ \E i \in 1..Len(textures[kind]) : IsSome(textures[kind][i])

\* C5: when remove takes the last key out of a texture the slot is emptied
\* and its index is pushed on the free list of its kind (otherwise the slot
\* stays occupied and the free list is unchanged); a texture created while
\* that kind's free list is not empty takes the index popped from it and the
\* slot vector keeps its length; a slot is appended only when the free list
\* is empty.
C5_SlotReuse ==
    [][/\ (Called("remove") /\ Cached(last'.arg)) =>
            LET id == Tile(last'.arg).texture_id
                slot == StorageIndex(textures, id)
                after == StorageIndex(textures', id)
            IN  IsSome(slot) =>
                    IF Unwrap(slot).live_atlas_keys = 1
                    THEN /\ after = None
                         /\ free_list'[id.kind] = Append(free_list[id.kind], id.index)
                    ELSE /\ IsSome(after)
                         /\ free_list' = free_list
       /\ created' = created + 1 =>
            LET kind == texture_kind(last'.arg)
                free == free_list[kind]
                list == textures[kind]
            IN  IF free /= <<>>
                THEN /\ Len(textures'[kind]) = Len(list)
                     /\ free_list'[kind] = SubSeq(free, 1, Len(free) - 1)
                     /\ list[free[Len(free)] + 1] = None
                     /\ IsSome(textures'[kind][free[Len(free)] + 1])
                     /\ Unwrap(textures'[kind][free[Len(free)] + 1]).gen = created'
                     /\ Unwrap(textures'[kind][free[Len(free)] + 1]).id
                            = AtlasTextureId(free[Len(free)], kind)
                ELSE /\ Len(textures'[kind]) = Len(list) + 1
                     /\ free_list'[kind] = <<>>
                     /\ Unwrap(textures'[kind][Len(list) + 1]).gen = created'
                     /\ Unwrap(textures'[kind][Len(list) + 1]).id
                            = AtlasTextureId(Len(list), kind)]_vars

\* two textures of a kind were created, the first was reclaimed, and the
\* third texture of that kind took the freed slot 0 while slot 1 is occupied
C5_Witness ==
    /\ last.op = "get_or_insert_with"
    /\ IsSome(last.built)
    /\ IsSome(last.result.tile)
    /\ LET tile == Unwrap(last.result.tile)
           list == textures[tile.texture_id.kind]
       IN  /\ tile.texture_id.index = 0
           /\ tile.tile_id = 1
           /\ tile.gen = 3
           /\ Len(list) = 2
           /\ IsSome(list[2])
           /\ free_list[tile.texture_id.kind] = <<>>

\* C6: every tile stored in the key map refers to a slot that is occupied by
\* the texture the tile was allocated in (a texture is not reclaimed while a
\* key still lives in it).
C6_TilesHaveTextures ==
    \A key \in Keys :
        Cached(key) =>
            LET slot == StorageIndex(textures, Tile(key).texture_id)
            IN  /\ IsSome(slot)
                /\ Unwrap(slot).gen = Tile(key).gen
                /\ Unwrap(slot).id = Tile(key).texture_id

\* a key lives in a texture that took over a reclaimed slot while another
\* slot of the same kind has been reclaimed
C6_Witness ==
    \E key \in Keys :
        /\ Cached(key)
        /\ Tile(key).gen >= 2
        /\ free_list[Tile(key).texture_id.kind] /= <<>>
        /\ last.op = "remove"
        /\ IsSome(last.result.tile)

\* C7: reading a texture slot that is empty or was never populated never
\* crashes: no get_texture_view, get_texture_info or sprite batch draw ends
\* in a panic.
C7_ReadNeverPanics ==
    ~(/\ last.op \in {"get_texture_view", "get_texture_info", "draw_batch"}
      /\ last.result.tag = "Panic")

IsWrite(e) == e.ev = "write_texture"

\* C8: draw() flushes the upload queue before it acquires the swap-chain
\* image and before any pass is encoded: the writes of the frame all precede
\* the acquisition, there is one write for each upload pending when draw()
\* began, the queue is empty when the batch loop starts, and the first phase
\* of draw() encodes no pass.
C8_UploadBeforeRead ==
    [][Called("draw") =>
          LET log == last'.log
              writes == SelectSeq(log, IsWrite)
          IN  /\ \A i, j \in 1..Len(log) :
                    (IsWrite(log[i]) /\ ~IsWrite(log[j])) => i < j
              /\ \A j \in 1..Len(log) : log[j].ev \notin {"begin_render_pass", "draw"}
              /\ last'.result.tag /= "Panic" =>
                    /\ uploads' = <<>>
                    /\ Len(writes) = Len(uploads)
                    /\ \A i \in 1..Len(uploads) :
                          /\ writes[i].id = uploads[i].id
                          /\ writes[i].origin = uploads[i].bounds.origin
                          /\ writes[i].extent = uploads[i].bounds.size
                    /\ \E j \in 1..Len(log) : log[j].ev = "get_current_texture"
              /\ frame'.pc = "batches" => uploads' = <<>>]_vars

\* a frame began with uploads pending: they were written, then the image was
\* acquired and the batch loop entered
C8_Witness ==
    /\ last.op = "draw"
    /\ frame.pc = "batches"
    /\ frame.len >= 1
    /\ Len(last.log) >= 3
    /\ IsWrite(last.log[1])
    /\ IsWrite(last.log[2])
    /\ last.log[3].ev = "get_current_texture"

\* C9: before_frame issues exactly one write for each pending upload, in
\* the queue's order, and leaves the queue empty.
C9_EachUploadWrittenOnce ==
    [][Called("before_frame") =>
          /\ uploads' = <<>>
          /\ Len(last'.log) = Len(uploads)
          /\ \A i \in 1..Len(uploads) :
                /\ IsWrite(last'.log[i])
                /\ last'.log[i].id = uploads[i].id
                /\ last'.log[i].origin = uploads[i].bounds.origin
                /\ last'.log[i].extent = uploads[i].bounds.size
                /\ last'.log[i].data = uploads[i].data]_vars

\* C10: the passes and draw calls a batch adds to the encoder carry the
\* position of that batch in the scene, the loop visits the positions in
\* scene order, and whatever is recorded comes after everything recorded for
\* the batches before it.
C10_PaintOrder ==
    [][Called("draw_batch") =>
          /\ last'.arg.ord = frame.i + 1
          /\ \A j \in 1..Len(last'.log) :
                /\ last'.log[j].ord = last'.arg.ord
                /\ last'.log[j].ord > frame.last_ord]_vars

\* the second batch of a scene was recorded after the first one had been
C10_Witness ==
    /\ last.op = "draw_batch"
    /\ last.log /= <<>>
    /\ frame.i = 2
    /\ frame.last_ord = 2
    /\ frame.passes >= 2

IsFramePass(e) == e.ev = "begin_render_pass" /\ e.target = "frame"

\* C11: within one draw() a pass that targets the swap-chain image clears it
\* exactly when no earlier pass of that frame targeted it, and loads it
\* otherwise; a batch begins at most one such pass.
C11_ClearThenAccumulate ==
    [][Called("draw_batch") =>
          /\ FramePasses(last'.log) <= 1
          /\ frame'.passes = frame.passes + FramePasses(last'.log)
          /\ \A j \in 1..Len(last'.log) :
                IsFramePass(last'.log[j]) =>
                    last'.log[j].load = (IF frame.passes = 0 THEN "Clear" ELSE "Load")]_vars

\* the second batch of a frame drew on the image the first batch had cleared
C11_Witness ==
    /\ last.op = "draw_batch"
    /\ frame.passes = 2
    /\ \E j \in 1..Len(last.log) : IsFramePass(last.log[j]) /\ last.log[j].load = "Load"

IsCopy(e) == e.ev = "draw" /\ e.pipeline = "paths"

IsCopyOrQuads(name) == name \in {"paths", "quads"}

\* C12: a non-empty path batch records exactly one copy draw call, inside
\* its own framebuffer pass and after everything recorded before it in the
\* frame; when its paths share one paint order the call has one instance per
\* path, the instance covering that path's clipped bounds; a batch that is
\* not a non-empty path batch records no copy call, and a non-empty quad
\* batch records its one quad call after the calls recorded before it: the
\* copy calls of path batches on either side of a quad batch stay separate.
C12_OneCopyPerPathBatch ==
    [][Called("draw_batch") =>
          LET batch == last'.arg.batch
              log == last'.log
              copies == SelectSeq(log, IsCopy)
          IN  IF batch.kind = "Paths" /\ batch.paths /= <<>>
              THEN /\ Len(copies) = 1
                   /\ IsCopy(log[Len(log)])
                   /\ IsFramePass(log[Len(log) - 1])
                   /\ copies[1].ord = last'.arg.ord
                   /\ (\A j \in 1..Len(batch.paths) : batch.paths[j].order = batch.paths[1].order)
                         => copies[1].instances
                                = [j \in 1..Len(batch.paths) |-> batch.paths[j].bounds]
                   /\ SelectSeq(frame'.calls, IsCopyOrQuads)
                         = Append(SelectSeq(frame.calls, IsCopyOrQuads), "paths")
              ELSE /\ copies = <<>>
                   /\ SelectSeq(frame'.calls, IsCopyOrQuads)
                         = IF batch.kind = "Quads" /\ batch.prims /= <<>>
                           THEN Append(SelectSeq(frame.calls, IsCopyOrQuads), "quads")
                           ELSE SelectSeq(frame.calls, IsCopyOrQuads)]_vars

\* a frame of a path batch, a quad batch and a path batch of two paths with
\* one paint order: two copy calls around the quad call, the second with an
\* instance for each path
C12_Witness ==
    /\ last.op = "draw_batch"
    /\ frame.i = 3
    /\ SelectSeq(frame.calls, IsCopyOrQuads) = <<"paths", "quads", "paths">>
    /\ last.arg.batch.kind = "Paths"
    /\ Len(last.arg.batch.paths) = 2
    /\ Len(last.log[Len(last.log)].instances) = 2
    /\ last.log[Len(last.log)].instances[1] /= last.log[Len(last.log)].instances[2]

\* C13: after every call, a path intermediate texture that exists has the
\* width and height of the surface configuration, and so has its MSAA
\* companion, which exists exactly when the texture does and the sample count
\* exceeds one; update_drawable_size to a different size stores the new size
\* and leaves no intermediate texture, to the same size it changes nothing;
\* a non-empty path batch leaves a texture of the current size.
C13_IntermediateMatchesSurface ==
    [][/\ IsSome(renderer'.path_intermediate_texture) =>
            Unwrap(renderer'.path_intermediate_texture) = renderer'.surface_config
       /\ IsSome(renderer'.path_intermediate_msaa_texture) =>
            /\ IsSome(renderer'.path_intermediate_texture)
            /\ Unwrap(renderer'.path_intermediate_msaa_texture).size = renderer'.surface_config
       /\ (IsSome(renderer'.path_intermediate_texture) /\ renderer'.path_sample_count > 1) =>
            IsSome(renderer'.path_intermediate_msaa_texture)
       /\ Called("update_drawable_size") =>
            /\ renderer'.surface_config = last'.arg
            /\ IF last'.arg /= renderer.surface_config
               THEN /\ renderer'.path_intermediate_texture = None
                    /\ renderer'.path_intermediate_msaa_texture = None
               ELSE renderer' = renderer
       /\ (/\ Called("draw_batch")
           /\ last'.arg.batch.kind = "Paths"
           /\ last'.arg.batch.paths /= <<>>) =>
            /\ renderer'.surface_config = renderer.surface_config
            /\ renderer'.path_intermediate_texture = Some(renderer.surface_config)]_vars

\* paths were drawn after the surface had been resized: the intermediate
\* textures exist at the new size
C13_Witness ==
    /\ last.op = "draw_batch"
    /\ last.arg.batch.kind = "Paths"
    /\ renderer.surface_config /= Size(800, 600)
    /\ renderer.path_intermediate_texture = Some(renderer.surface_config)
    /\ IsSome(renderer.path_intermediate_msaa_texture)

IsEvent(e, names) == e.ev \in names

\* C14: when get_current_texture fails, draw() returns without a panic and
\* without entering the batch loop: it asked for the image once, encoded no
\* pass, submitted and presented nothing and left the renderer as it was;
\* for Lost and Outdated it configured the surface once, with the current
\* configuration, after the failed acquisition, for every other error it did
\* not configure it.
C14_AcquireFailureSkipsFrame ==
    [][(/\ Called("draw")
        /\ last'.arg.acquire /= "Ok"
        /\ \E j \in 1..Len(last'.log) : last'.log[j].ev = "get_current_texture") =>
          LET log == last'.log
              n == Len(log)
              configures == {j \in 1..n : log[j].ev = "configure"}
              acquires == {j \in 1..n : log[j].ev = "get_current_texture"}
          IN  /\ ~panicked'
              /\ last'.result = Unit
              /\ frame' = Idle
              /\ renderer' = renderer
              /\ Cardinality(acquires) = 1
              /\ \A j \in acquires : log[j].result = last'.arg.acquire
              /\ \A j \in 1..n :
                    ~IsEvent(log[j], {"begin_render_pass", "draw", "submit", "present"})
              /\ IF last'.arg.acquire \in {"Lost", "Outdated"}
                 THEN /\ configures = {n}
                      /\ acquires = {n - 1}
                      /\ log[n].config = renderer.surface_config
                 ELSE configures = {}]_vars

\* a frame was skipped on a lost surface after the surface had been resized
\* and with uploads pending: they were written, the image was asked for, and
\* the surface was configured with the resized configuration
C14_Witness ==
    /\ last.op = "draw"
    /\ last.arg.acquire = "Lost"
    /\ last.arg.len >= 1
    /\ frame = Idle
    /\ Len(last.log) = 3
    /\ IsWrite(last.log[1])
    /\ last.log[3] = Configure(Size(1024, 768))
    /\ renderer.surface_config = Size(1024, 768)

BackendRank(name) == IF name = "WebGPU" THEN 1 ELSE 2

IsAttempt(e) == e.ev \in {"create_surface", "request_adapter", "request_device"}

\* the candidate `name` has a failed step in the log
FailedOn(log, name) ==
    \E j \in 1..Len(log) : IsAttempt(log[j]) /\ log[j].backend = name /\ ~log[j].ok

\* the candidate `name` passed the step in the log
PassedOn(log, name, step) ==
    \E j \in 1..Len(log) : log[j] = Attempt(step, name, TRUE)

\* C15: new() attempts WebGPU first and WebGL second and never goes back; a
\* candidate is left at its first failed step; new() ends in the step in
\* which a device request succeeds; when new() returns a renderer
\* it is built on a candidate whose surface creation, adapter request and
\* device request all succeeded, every candidate before it failed and no
\* candidate after it was attempted; when new() returns an error every
\* candidate failed, and the error carries the failure of the last one.
C15_BackendFallback ==
    last.op = "new" =>
        LET log == last.log
            attempts == {j \in 1..Len(log) : IsAttempt(log[j])}
        IN  /\ \A j \in attempts : (\A i \in attempts : i >= j) => log[j].backend = "WebGPU"
            /\ \A i, j \in attempts :
                  i < j => /\ BackendRank(log[i].backend) <= BackendRank(log[j].backend)
                           /\ log[i].backend = log[j].backend => log[i].ok
            /\ \A b \in 1..Len(backends_to_try) :
                  PassedOn(log, backends_to_try[b], "request_device") =>
                      /\ last.result /= None
                      /\ \A j \in attempts :
                            BackendRank(log[j].backend) <= BackendRank(backends_to_try[b])
            /\ (last.result /= None /\ last.result.tag = "Ok") =>
                  /\ PassedOn(log, last.result.backend, "create_surface")
                  /\ PassedOn(log, last.result.backend, "request_adapter")
                  /\ PassedOn(log, last.result.backend, "request_device")
                  /\ ~FailedOn(log, last.result.backend)
                  /\ \A b \in 1..Len(backends_to_try) :
                        LET name == backends_to_try[b]
                        IN  /\ BackendRank(name) < BackendRank(last.result.backend)
                                  => FailedOn(log, name)
                            /\ BackendRank(name) > BackendRank(last.result.backend)
                                  => \A j \in attempts : log[j].backend /= name
            /\ (last.result /= None /\ last.result.tag = "Err") =>
                  /\ FailedOn(log, "WebGPU")
                  /\ FailedOn(log, "WebGL")
                  /\ last.result.last_error.backend = "WebGL"
                  /\ ~PassedOn(log, "WebGPU", "request_device")
                  /\ ~PassedOn(log, "WebGL", "request_device")

\* WebGPU got a surface and an adapter but no device, and the renderer was
\* built on WebGL
C15_Witness ==
    /\ last.op = "new"
    /\ last.result /= None
    /\ last.result.tag = "Ok"
    /\ last.result.backend = "WebGL"
    /\ last.log[3] = Attempt("request_device", "WebGPU", FALSE)
    /\ renderer.surface_config = last.arg.size

\* C16: the renderer new() returns has the highest sample count of 4, 2, 1
\* whose test texture the device can create: 4 if a 4-sample texture can be
\* created, otherwise 2 if a 2-sample texture can, otherwise 1.
C16_SampleCountDescends ==
    (last.op = "new" /\ last.result /= None /\ last.result.tag = "Ok") =>
        renderer.path_sample_count
            = (IF 4 \in last.result.supported THEN 4
               ELSE IF 2 \in last.result.supported THEN 2
               ELSE 1)

\* the thread is inside the body of an atlas operation
Inside(t) == threads.of[t].pc \in {"locked", "build", "insert"}

\* the thread's last call was get_or_insert_with(key) and returned a tile
GotTile(t, key) ==
    /\ threads.of[t].pc = "idle"
    /\ IsSome(threads.of[t].call)
    /\ InCall(t).op = "get_or_insert_with"
    /\ InCall(t).key = key
    /\ IsSome(threads.of[t].result)
    /\ Unwrap(threads.of[t].result).value.tag = "Ok"
    /\ IsSome(Unwrap(threads.of[t].result).value.tile)

\* the cached keys whose tile lies in the texture
KeysIn(texture) ==
    {k \in Keys : Cached(k) /\ Tile(k).texture_id = texture.id /\ Tile(k).gen = texture.gen}

\* C17: at most one thread is inside an atlas operation, and it holds the
\* lock; so between two removals of a key at most one build() for it returns
\* content, and it has run exactly when the key is cached or being
\* inserted; two calls for a key that return a tile without a removal in
\* between return the same tile; and every texture's live count is the number
\* of cached keys in it.
C17_MutualExclusion ==
    /\ \A t1, t2 \in Threads : (Inside(t1) /\ Inside(t2)) => t1 = t2
    /\ \A t \in Threads : Inside(t) => threads.lock = t
    /\ (\A t \in Threads : ~Inside(t)) => threads.lock = 0
    /\ ~panicked =>
          /\ \A k \in Keys :
                threads.builds[k]
                    = (IF Cached(k) \/ \E t \in Threads : threads.of[t].pc = "insert" /\ InCall(t).key = k
                       THEN 1 ELSE 0)
          /\ \A t1, t2 \in Threads, k \in Keys :
                (/\ GotTile(t1, k)
                 /\ GotTile(t2, k)
                 /\ Unwrap(threads.of[t1].result).epoch = Unwrap(threads.of[t2].result).epoch)
                    => Unwrap(threads.of[t1].result).value = Unwrap(threads.of[t2].result).value
          /\ \A kind \in Kinds : \A i \in 1..Len(textures[kind]) :
                IsSome(textures[kind][i]) =>
                    Unwrap(textures[kind][i]).live_atlas_keys
                        = Cardinality(KeysIn(Unwrap(textures[kind][i])))

\* two threads asked for the same uncached key at the same time: one called
\* while the other held the lock and had yet to insert, build ran once, both got
\* the cached tile and its texture counts one key
C17_Witness ==
    \E t1, t2 \in Threads :
        /\ t1 /= t2
        /\ GotTile(t1, 1)
        /\ GotTile(t2, 1)
        /\ threads.of[t1].calls = 1
        /\ threads.of[t2].calls = 1
        /\ threads.of[t1].built
        /\ ~threads.of[t2].built
        /\ threads.of[t2].behind = t1
        /\ Unwrap(threads.of[t1].result).value = Ok(tiles_by_key[1])
        /\ Unwrap(threads.of[t2].result).value = Ok(tiles_by_key[1])
        /\ threads.builds[1] = 1
        /\ Unwrap(StorageIndex(textures, Tile(1).texture_id)).live_atlas_keys = 1

\* C18: a Timer never resolves before the timeout it scheduled has fired.
C18_TimerWaits ==
    (IsSome(timer.future) /\ IsSome(timer.output)) => timer.timeout = "fired"

\* C19: the window reports a renderer exactly when initialize_renderer has
\* completed, which it does only on a constructor result of Ok, and from then
\* on for good; while it reports none, no frame is begun, the atlas state
\* does not change and the renderer changes only by its construction; a
\* draw, get_or_insert_with or remove answered without a renderer changes
\* nothing, issues nothing, does not invoke build, and get_or_insert_with
\* returns no tile; once the renderer is there no call is answered that way.
C19_NotReadyIsInert ==
    [][/\ is_renderer_ready(window') <=> window'.pc = "ready"
       /\ is_renderer_ready(window) => is_renderer_ready(window')
       /\ (~is_renderer_ready(window) /\ is_renderer_ready(window')) =>
            /\ last.op = "new"
            /\ last.result.tag = "Ok"
            /\ window.pc = "initializing"
       /\ ~is_renderer_ready(window) =>
            /\ UNCHANGED <<frame, atlasVars>>
            /\ last' /= last => last'.op = "new"
            /\ renderer' /= renderer => last'.op = "new" /\ last' /= last
       /\ window'.call /= window.call =>
            LET call == Unwrap(window'.call)
            IN  /\ ~is_renderer_ready(window)
                /\ UNCHANGED otherRendererVars
                /\ call.op \in {"draw", "get_or_insert_with", "remove"}
                /\ call.log = <<>>
                /\ call.built = None
                /\ call.result = (IF call.op = "get_or_insert_with" THEN Ok(None) ELSE Unit)]_vars

\* a sprite was asked for before the renderer was installed and got no
\* tile; the renderer has since been installed and the same key is cached in
\* its atlas
C19_Witness ==
    /\ is_renderer_ready(window)
    /\ IsSome(window.call)
    /\ Unwrap(window.call) = Call("get_or_insert_with", 1, None, Ok(None), <<>>)
    /\ Cached(1)
    /\ textures["Monochrome"] /= <<>>

\* C20: a get_or_insert_with on a cached key leaves the key map, every
\* texture slot with its live count and packer, the free lists and the upload
\* queue as they were, issues no GPU command, creates no texture and does
\* not panic.
C20_HitChangesNothing ==
    [][(Called("get_or_insert_with") /\ Cached(last'.arg)) =>
          /\ tiles_by_key' = tiles_by_key
          /\ textures' = textures
          /\ free_list' = free_list
          /\ uploads' = uploads
          /\ created' = created
          /\ last'.log = <<>>
          /\ ~panicked']_vars

\* a key was answered from the cache while an upload is pending, a slot of
\* its kind is on the free list and its texture holds another key as well
C20_Witness ==
    /\ last.op = "get_or_insert_with"
    /\ last.built = None
    /\ Cached(last.arg)
    /\ uploads /= <<>>
    /\ free_list[texture_kind(last.arg)] /= <<>>
    /\ Unwrap(StorageIndex(textures, Tile(last.arg).texture_id)).live_atlas_keys = 2

\* the step is a get_or_insert_with that missed, whose build() returned
\* content, and that returned
Inserted ==
    /\ Called("get_or_insert_with")
    /\ IsSome(last'.built)
    /\ Unwrap(last'.built).tag = "Some"
    /\ ~panicked'

\* the live count of slot i of a kind, 0 for an empty or absent slot
CountAt(texs, kind, i) ==
    IF i <= Len(texs[kind]) /\ IsSome(texs[kind][i])
    THEN Unwrap(texs[kind][i]).live_atlas_keys
    ELSE 0

\* the rectangles handed out in slot i of a kind by the texture of
\* generation gen
RectsAt(texs, kind, i, gen) ==
    IF i <= Len(texs[kind]) /\ IsSome(texs[kind][i]) /\ Unwrap(texs[kind][i]).gen = gen
    THEN Unwrap(texs[kind][i]).allocator
    ELSE {}

SlotsOf(texs, kind) == 1..Len(texs[kind])

\* C21: a miss whose build returns (size, bytes) allocates one tile (one new
\* rectangle in the tile's texture), appends one upload with the tile's
\* texture id, its bounds and the bytes, maps the key to the tile and no
\* other key to anything new, adds one to the live count of the tile's
\* texture and to no other, and returns the tile with the requested size.
C21_MissInserts ==
    [][Inserted =>
          LET key == last'.arg
              res == Unwrap(last'.built)
              tile == Unwrap(last'.result.tile)
              id == tile.texture_id
          IN  /\ last'.result.tag = "Ok"
              /\ IsSome(last'.result.tile)
              /\ tile.bounds.size = res.size
              /\ id.kind = texture_kind(key)
              /\ RectsAt(textures', id.kind, id.index + 1, tile.gen)
                    = RectsAt(textures, id.kind, id.index + 1, tile.gen) \cup {tile.bounds}
              /\ tile.bounds \notin RectsAt(textures, id.kind, id.index + 1, tile.gen)
              /\ Len(uploads') = Len(uploads) + 1
              /\ SubSeq(uploads', 1, Len(uploads)) = uploads
              /\ uploads'[Len(uploads')].id = id
              /\ uploads'[Len(uploads')].bounds = tile.bounds
              /\ uploads'[Len(uploads')].data = res.bytes
              /\ tiles_by_key' = [tiles_by_key EXCEPT ![key] = Some(tile)]
              /\ \A kind \in Kinds :
                    \A i \in SlotsOf(textures, kind) \cup SlotsOf(textures', kind) :
                        CountAt(textures', kind, i) =
                            CountAt(textures, kind, i)
                                + (IF kind = id.kind /\ i = id.index + 1 THEN 1 ELSE 0)]_vars

\* a miss placed its tile beside another key's tile in an existing texture
\* and queued its bytes behind an upload that was already pending
C21_Witness ==
    /\ last.op = "get_or_insert_with"
    /\ IsSome(last.built)
    /\ Unwrap(last.built).tag = "Some"
    /\ IsSome(last.result.tile)
    /\ LET tile == Unwrap(last.result.tile)
       IN  /\ tile.tile_id = 2
           /\ tile.bounds.origin /= [x |-> 0, y |-> 0]
           /\ CountAt(textures, tile.texture_id.kind, tile.texture_id.index + 1) = 2
           /\ Len(uploads) = 2
           /\ uploads[2].bounds = tile.bounds
           /\ uploads[2].data = Unwrap(last.built).bytes

\* generations of the textures of a kind that live in `texs` and have room
\* for `size`
GensWithRoom(texs, kind, size) ==
    {Unwrap(texs[kind][i]).gen : i \in
        {j \in SlotsOf(texs, kind) :
            /\ IsSome(texs[kind][j])
            /\ AllocatorAllocate(Unwrap(texs[kind][j]).allocator,
                                 Unwrap(texs[kind][j]).size, size) /= {}}}

\* C22: when some live texture of the key's kind has room for the request,
\* the tile is placed in the one created last among those with room.
C22_MostRecentFirst ==
    [][Inserted =>
          LET tile == Unwrap(last'.result.tile)
              fit == GensWithRoom(textures, texture_kind(last'.arg), tile.bounds.size)
          IN  fit /= {} => tile.gen = MaxOf(fit)]_vars

\* the live texture of generation gen, as a set of at most one texture
TextureOf(texs, gen) ==
    UNION {{Unwrap(texs[kind][i]) : i \in
                {j \in SlotsOf(texs, kind) :
                    IsSome(texs[kind][j]) /\ Unwrap(texs[kind][j]).gen = gen}}
           : kind \in Kinds}

Within(bounds, size) ==
    /\ bounds.origin.x >= 0
    /\ bounds.origin.y >= 0
    /\ Right(bounds) <= size.width
    /\ Bottom(bounds) <= size.height

\* C23: a texture created by a miss is max(requested, 1024) wide and high
\* and the tile requested lies inside it (the allocation in the new texture
\* does not fail, no miss of positive size panics); a texture that stays in
\* its slot keeps its identity and its dimensions.
C23_NewTextureFits ==
    [][/\ (Called("get_or_insert_with") /\ IsSome(last'.built)
              /\ Unwrap(last'.built).tag = "Some") => ~panicked'
       /\ created' /= created =>
            /\ created' = created + 1
            /\ Inserted
            /\ LET size == Unwrap(last'.built).size
                   tile == Unwrap(last'.result.tile)
               IN  /\ tile.gen = created'
                   /\ \E texture \in TextureOf(textures', created') :
                         /\ texture.size.width = MaxOf({size.width, 1024})
                         /\ texture.size.height = MaxOf({size.height, 1024})
                         /\ texture.id = tile.texture_id
                         /\ Within(tile.bounds, texture.size)
       /\ \A kind \in Kinds : \A i \in SlotsOf(textures, kind) :
            (IsSome(textures[kind][i]) /\ IsSome(textures'[kind][i])) =>
                /\ Unwrap(textures'[kind][i]).gen = Unwrap(textures[kind][i]).gen
                /\ Unwrap(textures'[kind][i]).size = Unwrap(textures[kind][i]).size]_vars

\* a request wider than the default and lower than it created a 1025x1024
\* texture beside a live texture of the default size, which kept its size
C23_Witness ==
    /\ last.op = "get_or_insert_with"
    /\ IsSome(last.built)
    /\ Unwrap(last.built).size = Size(1025, 512)
    /\ IsSome(last.result.tile)
    /\ Unwrap(last.result.tile).gen = created
    /\ \E texture \in TextureOf(textures, created) : texture.size = Size(1025, 1024)
    /\ \E gen \in 1..(created - 1) :
          \E texture \in TextureOf(textures, gen) :
              texture.size = Size(1024, 1024) /\ texture.live_atlas_keys = 1

\* generations of the textures that live in `texs`
Gens(texs) ==
    UNION {{Unwrap(texs[kind][i]).gen : i \in
                {j \in SlotsOf(texs, kind) : IsSome(texs[kind][j])}}
           : kind \in Kinds}

\* C24: a get_or_insert_with creates at most one texture, and creates one
\* only in a miss with content for which no live texture of the key's kind
\* has room; otherwise no texture appears; the slots and the free list of
\* the other kind are left as they are.
C24_CreateOnlyOnTotalFailure ==
    [][Called("get_or_insert_with") =>
          LET kind == texture_kind(last'.arg)
          IN  /\ created' \in {created, created + 1}
              /\ created' = created + 1 =>
                    /\ IsSome(last'.built)
                    /\ Unwrap(last'.built).tag = "Some"
                    /\ GensWithRoom(textures, kind, Unwrap(last'.built).size) = {}
                    /\ Gens(textures') = Gens(textures) \cup {created'}
                    /\ created' \notin Gens(textures)
              /\ created' = created => Gens(textures') = Gens(textures)
              /\ \A other \in Kinds \ {kind} :
                    /\ textures'[other] = textures[other]
                    /\ free_list'[other] = free_list[other]]_vars

\* a glyph that did not fit the live monochrome texture got a new one, the
\* third texture of the atlas, while a polychrome texture lives
C24_Witness ==
    /\ last.op = "get_or_insert_with"
    /\ IsSome(last.built)
    /\ IsSome(last.result.tile)
    /\ texture_kind(last.arg) = "Monochrome"
    /\ Unwrap(last.result.tile).gen = created
    /\ created = 3
    /\ \E texture \in TextureOf(textures, 1) \cup TextureOf(textures, 2) :
          texture.id.kind = "Monochrome"
    /\ \E texture \in TextureOf(textures, 1) \cup TextureOf(textures, 2) :
          texture.id.kind = "Polychrome"

\* C25: the queue is first in, first out from the miss to the write: a miss
\* with content appends its upload behind the pending ones, no other call
\* than before_frame touches the queue, and before_frame issues one write
\* per pending upload in the order of the queue, two uploads for one
\* texture giving two writes.
C25_UploadsFifo ==
    [][/\ Inserted =>
            /\ Len(uploads') = Len(uploads) + 1
            /\ SubSeq(uploads', 1, Len(uploads)) = uploads
            /\ uploads'[Len(uploads')].bounds = Unwrap(last'.result.tile).bounds
       /\ (~Inserted /\ ~Called("before_frame")) => uploads' = uploads
       /\ Called("before_frame") =>
            /\ Len(last'.log) = Len(uploads)
            /\ \A i \in 1..Len(uploads) :
                  /\ IsWrite(last'.log[i])
                  /\ last'.log[i].id = uploads[i].id
                  /\ last'.log[i].origin = uploads[i].bounds.origin
                  /\ last'.log[i].extent = uploads[i].bounds.size
                  /\ last'.log[i].data = uploads[i].data
                  /\ last'.log[i].gen = uploads[i].gen]_vars

\* C26: no before_frame ends in a panic, whatever calls came before it.
C26_FlushNeverPanics ==
    ~(last.op = "before_frame" /\ last.result.tag = "Panic" /\ panicked)

\* the write goes to the texture its upload was queued for
OwnTexture(write) == write.target = write.gen

\* C27: every write of a before_frame goes to the texture its upload was
\* queued for, lies inside that texture, and covers the bounds of a tile
\* that is cached in that texture when the write is issued.
C27_WritesHitTheirTile ==
    [][Called("before_frame") =>
          \A i \in 1..Len(last'.log) :
              LET write == last'.log[i]
              IN  /\ OwnTexture(write)
                  /\ \E texture \in TextureOf(textures, write.target) :
                        Within([origin |-> write.origin, size |-> write.extent], texture.size)
                  /\ \E key \in DOMAIN tiles_by_key :
                        /\ Cached(key)
                        /\ Tile(key).texture_id = write.id
                        /\ Tile(key).gen = write.target
                        /\ Tile(key).bounds.origin = write.origin
                        /\ Tile(key).bounds.size = write.extent]_vars

\* the textures that occupy a slot
Occupied ==
    UNION {{Unwrap(textures[kind][i]) : i \in
                {j \in SlotsOf(textures, kind) : IsSome(textures[kind][j])}}
           : kind \in Kinds}

\* C28: when no call holds the lock, every texture that occupies a slot has a
\* live count of at least 1, equal to the number of keys of the key map whose
\* tile carries the texture's id.
C28_LiveCountIsKeyCount ==
    threads.lock = 0 =>
        \A texture \in Occupied :
            /\ texture.live_atlas_keys >= 1
            /\ texture.live_atlas_keys =
                  Cardinality({key \in DOMAIN tiles_by_key :
                                  Cached(key) /\ Tile(key).texture_id = texture.id})

\* a remove took one of two keys out of a texture, which stays with a count
\* of 1, while a texture of the other kind holds one key
C28_Witness ==
    /\ threads.lock = 0
    /\ last.op = "remove"
    /\ IsSome(last.result.tile)
    /\ \E texture \in Occupied :
          /\ texture.id = Unwrap(last.result.tile).texture_id
          /\ texture.gen = Unwrap(last.result.tile).gen
          /\ texture.live_atlas_keys = 1
          /\ Cardinality(texture.allocator) = 2
    /\ \E texture \in Occupied :
          texture.id.kind /= Unwrap(last.result.tile).texture_id.kind

\* the 0-based indices held by a free list
FreeIndices(free) == {free[n] : n \in 1..Len(free)}

\* C29: for each kind the free list holds, once each, exactly the indices of
\* the empty slots of the slot vector; an occupied slot i holds a texture
\* whose id is (i, kind); and a cached tile lies in a texture of its key's
\* kind.
C29_SlotStructure ==
    /\ \A kind \in Kinds :
          /\ Cardinality(FreeIndices(free_list[kind])) = Len(free_list[kind])
          /\ FreeIndices(free_list[kind]) =
                {i - 1 : i \in {j \in SlotsOf(textures, kind) : ~IsSome(textures[kind][j])}}
          /\ \A i \in SlotsOf(textures, kind) :
                IsSome(textures[kind][i]) =>
                    Unwrap(textures[kind][i]).id = AtlasTextureId(i - 1, kind)
    /\ \A key \in DOMAIN tiles_by_key :
          Cached(key) => Tile(key).texture_id.kind = texture_kind(key)

\* both monochrome textures were reclaimed, the one of slot 1 first, while a
\* polychrome key is cached in the third texture of the atlas
C29_Witness ==
    /\ free_list["Monochrome"] = <<1, 0>>
    /\ Len(textures["Monochrome"]) = 2
    /\ created = 3
    /\ last.op = "remove"
    /\ \E key \in Keys : Cached(key) /\ texture_kind(key) = "Polychrome"

IsCopyPass(e) == e.ev = "begin_render_pass" /\ e.label = "paths copy pass"

IsRasterPass(e) == e.ev = "begin_render_pass" /\ e.label = "path rasterization pass"

\* C30: whenever a batch encodes the copy pass, the two entries recorded
\* right before it are the rasterization pass of the same batch, which
\* clears its target, and the draw of the batch's vertices.
C30_RasterBeforeCopy ==
    [][Called("draw_batch") =>
          \A j \in 1..Len(last'.log) :
              IsCopyPass(last'.log[j]) =>
                  /\ j >= 3
                  /\ IsRasterPass(last'.log[j - 2])
                  /\ last'.log[j - 2].load = "Clear"
                  /\ last'.log[j - 2].target \in {"msaa", "intermediate"}
                  /\ last'.log[j - 2].ord = last'.log[j].ord
                  /\ last'.log[j - 1].ev = "draw"
                  /\ last'.log[j - 1].pipeline = "path_rasterization"]_vars

\* bounds `inner` lie inside bounds `outer`
Contains(outer, inner) ==
    /\ outer.origin.x <= inner.origin.x
    /\ outer.origin.y <= inner.origin.y
    /\ Right(inner) <= Right(outer)
    /\ Bottom(inner) <= Bottom(outer)

\* C31: the composite draw of a non-empty path batch has one instance per
\* path, in batch order and with the path's clipped bounds, when the last
\* path has the order of the first; otherwise it has one instance, the
\* bounding box of the clipped bounds of all the paths, which contains each
\* of them.
C31_PathSpriteMerge ==
    [][(Called("draw_batch") /\ last'.arg.batch.kind = "Paths"
            /\ last'.arg.batch.paths /= <<>>) =>
          LET paths == last'.arg.batch.paths
              copies == SelectSeq(last'.log, IsCopy)
              n == Len(paths)
          IN  /\ Len(copies) = 1
              /\ IF paths[n].order = paths[1].order
                 THEN /\ Len(copies[1].instances) = n
                      /\ \A j \in 1..n : copies[1].instances[j] = paths[j].bounds
                 ELSE /\ Len(copies[1].instances) = 1
                      /\ \A j \in 1..n : Contains(copies[1].instances[1], paths[j].bounds)
                      /\ copies[1].instances[1].origin.x
                            = -MaxOf({-paths[j].bounds.origin.x : j \in 1..n})
                      /\ copies[1].instances[1].origin.y
                            = -MaxOf({-paths[j].bounds.origin.y : j \in 1..n})
                      /\ Right(copies[1].instances[1])
                            = MaxOf({Right(paths[j].bounds) : j \in 1..n})
                      /\ Bottom(copies[1].instances[1])
                            = MaxOf({Bottom(paths[j].bounds) : j \in 1..n})]_vars

\* two paths of different orders were composited as one instance that is
\* larger than either path's bounds
C31_Witness ==
    /\ last.op = "draw_batch"
    /\ last.arg.batch.kind = "Paths"
    /\ Len(last.arg.batch.paths) = 2
    /\ last.arg.batch.paths[1].order /= last.arg.batch.paths[2].order
    /\ \E j \in 1..Len(last.log) :
          /\ IsCopy(last.log[j])
          /\ Len(last.log[j].instances) = 1
          /\ last.log[j].instances[1] /= last.arg.batch.paths[1].bounds
          /\ last.log[j].instances[1] /= last.arg.batch.paths[2].bounds

IsDraw(e) == e.ev = "draw"

\* C32: a batch of quads, shadows, underlines or sprites with n >= 1
\* primitives records exactly one draw call, of the batch's pipeline, with
\* the n primitives as its instances in batch order; an empty batch and a
\* batch of surfaces record no draw call.
C32_OneDrawPerBatch ==
    [][(Called("draw_batch") /\ last'.arg.batch.kind /= "Paths") =>
          LET batch == last'.arg.batch
              draws == SelectSeq(last'.log, IsDraw)
          IN  IF batch.kind = "Surfaces" \/ batch.prims = <<>>
              THEN draws = <<>>
              ELSE /\ Len(draws) = 1
                   /\ draws[1].pipeline = Pipeline(batch.kind)
                   /\ draws[1].instances = batch.prims]_vars

\* thread t returns in this step from a miss whose build() failed
BuildFailed(t) ==
    /\ threads.of[t].pc = "insert"
    /\ InCall(t).res.tag = "Err"
    /\ threads'.of[t].pc = "idle"

\* C33: a get_or_insert_with whose build() fails returns the error and
\* leaves the key map, the textures, their live counts, the free lists and
\* the upload queue as they were; it does not panic and the mutex is free
\* when it has returned.
C33_BuildErrorChangesNothing ==
    [][\A t \in Threads :
          BuildFailed(t) =>
              /\ Unwrap(threads'.of[t].result).value = Err
              /\ last'.result = Err
              /\ ~Cached(InCall(t).key)'
              /\ UNCHANGED atlasVars
              /\ ~panicked'
              /\ threads'.lock = 0]_vars

\* a build failed in one thread while another thread waited for the mutex;
\* the waiting call then ran its own build and returned a tile
C33_Witness ==
    \E t1, t2 \in Threads :
        /\ t1 /= t2
        /\ threads.of[t1].pc = "idle"
        /\ IsSome(threads.of[t1].result)
        /\ Unwrap(threads.of[t1].result).value = Err
        /\ threads.of[t1].built
        /\ threads.of[t2].behind = t1
        /\ threads.of[t2].built
        /\ GotTile(t2, 1)
        /\ Cached(1)

\* C34: every call a thread has begun returns (or unwinds in a panic).
C34_EveryCallReturns ==
    \A t \in Threads :
        (threads.of[t].pc /= "idle") ~> (threads.of[t].pc = "idle" \/ panicked)

\* C35: update_drawable_size with the size the surface already has records
\* no configure and leaves the renderer as it is, intermediate textures
\* included; with another size it stores the size, configures the surface
\* once with it and drops the intermediate textures; the sample count and
\* the atlas are untouched either way.
C35_ResizeOnlyOnChange ==
    [][Called("update_drawable_size") =>
          /\ renderer'.path_sample_count = renderer.path_sample_count
          /\ UNCHANGED atlasVars
          /\ ~panicked'
          /\ IF last'.arg = renderer.surface_config
             THEN /\ last'.log = <<>>
                  /\ renderer' = renderer
             ELSE /\ last'.log = <<Configure(last'.arg)>>
                  /\ renderer'.surface_config = last'.arg
                  /\ renderer'.path_intermediate_texture = None
                  /\ renderer'.path_intermediate_msaa_texture = None]_vars

\* the surface was resized, paths were drawn, and a further call with the
\* size in force kept the intermediate textures and configured nothing
C35_Witness ==
    /\ last.op = "update_drawable_size"
    /\ last.arg = renderer.surface_config
    /\ last.arg /= Size(800, 600)
    /\ last.log = <<>>
    /\ IsSome(renderer.path_intermediate_texture)
    /\ IsSome(renderer.path_intermediate_msaa_texture)

\* the runnables a drain loop has popped and not yet begun to run
Popped ==
    {Unwrap(dispatcher.stack[d].runnable) : d \in
        {e \in 1..Len(dispatcher.stack) :
            dispatcher.stack[e].pc = "popped" /\ IsSome(dispatcher.stack[e].runnable)}}

\* C36: runnables begin to run in the order of their dispatch, each once;
\* a runnable dispatched is waiting in the queue (in dispatch order), popped
\* or begun, and while one waits a drain task or a drain loop is there to
\* pop it, so that all have run when the dispatcher is at rest; the mutex
\* is held only by the innermost drain loop between its pop and the match
\* that follows, never by a loop whose runnable runs.
C36_RunOnceInOrder ==
    dispatcher.pc = "ready" =>
        LET started == dispatcher.started
            queue == dispatcher.main_thread_runnables
            begun == Len(started) + Cardinality(Popped)
        IN  /\ \A i \in 1..Len(started) : started[i] = i
            /\ Cardinality(Popped) <= 1
            /\ Popped \subseteq {Len(started) + 1}
            /\ Len(queue) = dispatcher.dispatched - begun
            /\ \A i \in 1..Len(queue) : queue[i] = begun + i
            /\ dispatcher.finished \subseteq 1..Len(started)
            /\ queue /= <<>> => (dispatcher.spawned > 0 \/ dispatcher.stack /= <<>>)
            /\ (dispatcher.stack = <<>> /\ dispatcher.spawned = 0) =>
                  /\ Len(started) = dispatcher.dispatched
                  /\ dispatcher.finished = 1..dispatcher.dispatched
            /\ dispatcher.lock /= 0 =>
                  /\ dispatcher.lock = Len(dispatcher.stack)
                  /\ Top.pc = "popped"
            /\ \A d \in 1..Len(dispatcher.stack) :
                  dispatcher.stack[d].pc = "run" => dispatcher.lock /= d

\* three runnables ran to the end: the first dispatched the second while it
\* ran, the third came from the page, and the dispatcher is at rest
C36_Witness ==
    /\ dispatcher.pc = "ready"
    /\ dispatcher.dispatched = 3
    /\ dispatcher.by[2] = 1
    /\ dispatcher.by[3] = 0
    /\ dispatcher.started = <<1, 2, 3>>
    /\ dispatcher.finished = {1, 2, 3}
    /\ dispatcher.stack = <<>>
    /\ dispatcher.spawned = 0

\* C37: the request-frame callback is given force_render = true exactly
\* when the renderer was installed, the observed size changed or the device
\* pixel ratio changed since it last ran (or since the window was made, if
\* it never ran), whether or not a callback was registered at the time.
C37_ForceRenderAfterChange ==
    [][window'.frames /= window.frames =>
          window'.force_render = Some(window.owed)]_vars

\* the places in the calls of the last listener where the input callback was
\* given an event of this type
GivenAt(state, type) == {i \in 1..Len(state.log) : state.log[i].type = type}

\* the event the last listener heard
HeardEvent(state) == Unwrap(state.event)

\* the listeners that pass a mouse or wheel event on to the input callback
MouseInputEvents == {"mousemove", "mousedown", "mouseup", "mouseleave", "wheel"}

C39_Composition ==
    [][input'.tick /= input.tick =>
          LET heard == HeardEvent(input')
              commits == GivenAt(input', "replace_text_in_range")
          IN  /\ (input.composition /\ heard.type \in {"keydown", "keyup"}) =>
                    GivenAt(input', "KeyDown") \cup GivenAt(input', "KeyUp") = {}
              /\ (input.composition /\ heard.type = "input") => input'.log = <<>>
              /\ heard.type = "compositionend" =>
                    /\ ~input'.is_composing
                    /\ Cardinality(commits) <= 1
                    /\ Len(input'.log) = Cardinality(commits)
                    /\ \A i \in commits : Some(input'.log[i].text) = heard.raw
                    /\ (heard.raw = None \/ ~input.input_handler) => commits = {}
                    /\ (heard.raw /= None /\ input.input_handler) => commits /= {}]_vars

\* a key that is no modifier, not flagged as composing by the browser, was
\* pressed while a composition was open and a callback was set: nothing was
\* given to the callback
C39_Witness ==
    /\ input.pc = "listening"
    /\ input.composition
    /\ input.input_callback
    /\ IsSome(input.event)
    /\ HeardEvent(input).type = "keydown"
    /\ ~HeardEvent(input).raw.is_composing
    /\ ~is_modifier_key(HeardEvent(input).raw)
    /\ HeardEvent(input).raw.shift_key = input.modifiers.shift
    /\ input.log = <<>>

====
